---- MODULE Spec2Model ----
(***************************************************************************)
(* Model of the mapon-go client library: the endpoint functions (HTTP      *)
(* status check, envelope decode, API error check, per-item mapping) and   *)
(* the JSON-to-message mappers with their coercion helpers.                *)
(*                                                                         *)
(* Conventions.                                                            *)
(*   - A Go string whose characters matter (enum codes, numeric text) is   *)
(*     a sequence of one-character strings; other strings are TLA+ strings.*)
(*   - A Go pointer / optional proto field is a sequence of length 0 (nil, *)
(*     unset) or 1 (present): None, Some(v).                               *)
(*   - A float64 is an exact decimal [m, e] meaning m / 10^e, kept in      *)
(*     normal form (no trailing fractional zero).                         *)
(*   - A timestamp string is a sequence of layout tokens.                  *)
(***************************************************************************)
EXTENDS Integers, Sequences, FiniteSets, TLC

VARIABLES call, ret, co, client, heap, procs, file, cli

vars == <<call, ret, co, client, heap, procs, file, cli>>

(***************************************************************************)
(* Bounds of the model.                                                    *)
(***************************************************************************)
MaxStrLen == 3

MaxList == 2

(***************************************************************************)
(* Optional values.                                                        *)
(***************************************************************************)
None == <<>>

Some(v) == <<v>>

IsSome(o) == Len(o) = 1

Get(o) == o[1]

(***************************************************************************)
(* Characters and case folding (strings.ToLower / strings.ToUpper).        *)
(***************************************************************************)
UpperChars == <<"A","B","C","D","E","F","G","H","I","J","K","L","M",
                "N","O","P","Q","R","S","T","U","V","W","X","Y","Z">>

LowerChars == <<"a","b","c","d","e","f","g","h","i","j","k","l","m",
                "n","o","p","q","r","s","t","u","v","w","x","y","z">>

ToLowerChar(c) ==
    IF \E i \in DOMAIN UpperChars : UpperChars[i] = c
    THEN LowerChars[CHOOSE i \in DOMAIN UpperChars : UpperChars[i] = c]
    ELSE c

ToUpperChar(c) ==
    IF \E i \in DOMAIN LowerChars : LowerChars[i] = c
    THEN UpperChars[CHOOSE i \in DOMAIN LowerChars : LowerChars[i] = c]
    ELSE c

ToLower(s) == [i \in DOMAIN s |-> ToLowerChar(s[i])]

ToUpper(s) == [i \in DOMAIN s |-> ToUpperChar(s[i])]

(***************************************************************************)
(* float64 as an exact decimal, strconv.ParseFloat and fmt's %v.           *)
(***************************************************************************)
Digits == <<"0","1","2","3","4","5","6","7","8","9">>

IsDigit(c) == \E i \in DOMAIN Digits : Digits[i] = c

DigitVal(c) == (CHOOSE i \in DOMAIN Digits : Digits[i] = c) - 1

RECURSIVE Pow10(_)
Pow10(e) == IF e = 0 THEN 1 ELSE 10 * Pow10(e - 1)

RECURSIVE Norm(_, _)
Norm(m, e) ==
    IF m = 0 THEN [m |-> 0, e |-> 0]
    ELSE IF e > 0 /\ m % 10 = 0 THEN Norm(m \div 10, e - 1)
    ELSE [m |-> m, e |-> e]

Zero == [m |-> 0, e |-> 0]

\* The magnitude and sign of a decimal; Go converts toward zero.
Abs(x) == IF x < 0 THEN -x ELSE x

Trunc(v) ==
    IF v.m < 0 THEN -(Abs(v.m) \div Pow10(v.e)) ELSE v.m \div Pow10(v.e)

\* v > a/10^b on decimals.
Greater(v, w) == v.m * Pow10(w.e) > w.m * Pow10(v.e)

RECURSIVE DigitsValue(_)
DigitsValue(s) ==
    IF s = <<>> THEN 0
    ELSE 10 * DigitsValue(SubSeq(s, 1, Len(s) - 1)) + DigitVal(s[Len(s)])

AllDigits(s) == \A i \in DOMAIN s : IsDigit(s[i])

\* Position of the first "." in s, or 0.
DotPos(s) ==
    IF \E i \in DOMAIN s : s[i] = "."
    THEN CHOOSE i \in DOMAIN s : s[i] = "." /\ \A j \in 1..(i - 1) : s[j] # "."
    ELSE 0

\* An unsigned decimal: digits, optionally with one ".", at least one digit.
UnsignedOK(s) ==
    LET d == DotPos(s)
        ip == IF d = 0 THEN s ELSE SubSeq(s, 1, d - 1)
        fp == IF d = 0 THEN <<>> ELSE SubSeq(s, d + 1, Len(s))
    IN  AllDigits(ip) /\ AllDigits(fp) /\ Len(ip) + Len(fp) > 0

UnsignedValue(s) ==
    LET d == DotPos(s)
        ip == IF d = 0 THEN s ELSE SubSeq(s, 1, d - 1)
        fp == IF d = 0 THEN <<>> ELSE SubSeq(s, d + 1, Len(s))
    IN  Norm(DigitsValue(ip \o fp), Len(fp))

\* strconv.ParseFloat(s, 64) on decimal text: (value, err); the value is 0
\* when the syntax is wrong.
ParseFloat(s) ==
    LET signed == Len(s) > 0 /\ s[1] \in {"-", "+"}
        body == IF signed THEN SubSeq(s, 2, Len(s)) ELSE s
        neg == signed /\ s[1] = "-"
    IN  IF UnsignedOK(body)
        THEN LET u == UnsignedValue(body)
             IN  [ok |-> TRUE, v |-> [m |-> IF neg THEN -u.m ELSE u.m, e |-> u.e]]
        ELSE [ok |-> FALSE, v |-> Zero]

RECURSIVE NatDigits(_)
NatDigits(n) ==
    IF n < 10 THEN <<Digits[n + 1]>>
    ELSE NatDigits(n \div 10) \o <<Digits[(n % 10) + 1]>>

RECURSIVE FracDigits(_, _)
FracDigits(n, width) ==
    IF width = 0 THEN <<>>
    ELSE FracDigits(n \div 10, width - 1) \o <<Digits[(n % 10) + 1]>>

\* fmt.Sprintf("%v", f) for a float64 in the range printed without exponent.
FormatFloat(v) ==
    LET a == Abs(v.m)
        ip == NatDigits(a \div Pow10(v.e))
        fp == FracDigits(a % Pow10(v.e), v.e)
    IN  (IF v.m < 0 THEN <<"-">> ELSE <<>>) \o ip
        \o (IF v.e > 0 THEN <<".">> \o fp ELSE <<>>)

(***************************************************************************)
(* Values decoded into interface{}: nil, float64, string, bool, array,     *)
(* object.  An array or object stands for any array or object: only its    *)
(* dynamic type and the first characters of its %v text decide anything.   *)
(***************************************************************************)
JNull == [t |-> "null", v |-> Zero, s |-> <<>>]

JNum(v) == [t |-> "num", v |-> v, s |-> <<>>]

JStr(s) == [t |-> "str", v |-> Zero, s |-> s]

JTrue == [t |-> "bool", v |-> Zero, s |-> <<>>]

JArr == [t |-> "arr", v |-> Zero, s |-> <<>>]

JObj == [t |-> "obj", v |-> Zero, s |-> <<>>]

\* fmt.Sprintf("%v", v)
SprintV(j) ==
    CASE j.t = "null" -> <<"<", "n", "i", "l", ">">>
      [] j.t = "num"  -> FormatFloat(j.v)
      [] j.t = "str"  -> j.s
      [] j.t = "bool" -> <<"t", "r", "u", "e">>
      [] j.t = "arr"  -> <<"[", "]">>
      [] OTHER        -> <<"m", "a", "p", "[", "]">>

\* A plausible slip: only the string case is coerced; a float64 goes to the
\* default branch.
parseFloat_stringOnly(j) ==
    CASE j.t = "null" -> [v |-> Zero, ok |-> TRUE]
      [] j.t = "str"  -> ParseFloat(j.s)
      [] OTHER        -> [v |-> Zero, ok |-> FALSE]

\* A plausible slip: the default branch yields a sentinel instead of 0.
parseFloat_sentinel(j) ==
    CASE j.t = "null" -> [v |-> Zero, ok |-> TRUE]
      [] j.t = "num"  -> [v |-> j.v, ok |-> TRUE]
      [] j.t = "str"  -> ParseFloat(j.s)
      [] OTHER        -> [v |-> [m |-> -1, e |-> 0], ok |-> FALSE]

\* parseFloat of the unit mapper: (value, err); callers drop err.
parseFloat(j) ==
    CASE j.t = "null" -> [v |-> Zero, ok |-> TRUE]
      [] j.t = "num"  -> [v |-> j.v, ok |-> TRUE]
      [] j.t = "str"  -> ParseFloat(j.s)
      [] OTHER        -> [v |-> Zero, ok |-> FALSE]

\* parseCanFloat of the CAN point endpoint.
parseCanFloat(j) == ParseFloat(SprintV(j)).v

(***************************************************************************)
(* Timestamp strings and time.Parse.  A string is a sequence of tokens: a  *)
(* date, a separator, a clock time, a zone; anything else is junk.  The    *)
(* instant is counted in hours.                                            *)
(***************************************************************************)
DateTokens == {"D1", "D2"}

ClockTokens == {"C1", "C2"}

ZoneTokens == {"Z", "+01"}

DateVal(d) == IF d = "D1" THEN 1 ELSE 2

ClockVal(c) == IF c = "C1" THEN 10 ELSE 11

ZoneOffset(z) == IF z = "Z" THEN 0 ELSE 1

\* time.RFC3339, "2006-01-02T15:04:05Z07:00"
RFC3339 == <<"date", "T", "clock", "zone">>

\* "2006-01-02 15:04:05"
LocalLayout == <<"date", " ", "clock">>

TokenMatches(el, tok) ==
    CASE el = "date"  -> tok \in DateTokens
      [] el = "clock" -> tok \in ClockTokens
      [] el = "zone"  -> tok \in ZoneTokens
      [] OTHER        -> tok = el

\* time.Parse(layout, s): (t, err).  Without a zone the time is UTC.
TimeParse(layout, s) ==
    IF Len(s) = Len(layout) /\ \A i \in DOMAIN s : TokenMatches(layout[i], s[i])
    THEN [ok |-> TRUE,
          t |-> DateVal(s[1]) * 24 + ClockVal(s[3])
                - (IF Len(s) >= 4 THEN ZoneOffset(s[4]) ELSE 0)]
    ELSE [ok |-> FALSE, t |-> 0]

\* A plausible slip: the error is dropped and the zero time is stored.
parsedTime_zeroOnError(layout, s) == Some(TimeParse(layout, s).t)

\* `if t, err := time.Parse(layout, s); err == nil { x.SetTime(timestamppb.New(t)) }`
parsedTime(layout, s) ==
    IF TimeParse(layout, s).ok THEN Some(TimeParse(layout, s).t) ELSE None

\* ... the same guarded by `if s != ""`.
parsedTimeNonEmpty(layout, s) ==
    IF s # <<>> THEN parsedTime(layout, s) ELSE None

(***************************************************************************)
(* Enum mappers.                                                           *)
(***************************************************************************)
UnitTypeCodes ==
    [c \in {<<"c","a","r">>, <<"t","r","u","c","k">>,
            <<"t","r","a","i","l","e","r">>, <<"v","a","n">>,
            <<"b","u","s">>, <<"t","r","a","c","t","o","r">>} |->
        CASE c = <<"c","a","r">> -> "CAR"
          [] c = <<"t","r","u","c","k">> -> "TRUCK"
          [] c = <<"t","r","a","i","l","e","r">> -> "TRAILER"
          [] c = <<"v","a","n">> -> "VAN"
          [] c = <<"b","u","s">> -> "BUS"
          [] OTHER -> "TRACTOR"]

mapUnitType(t) ==
    IF ToLower(t) \in DOMAIN UnitTypeCodes
    THEN UnitTypeCodes[ToLower(t)]
    ELSE "UNIT_TYPE_UNRECOGNIZED"

FuelTypeCodes ==
    [c \in {<<"P">>, <<"D">>, <<"G">>, <<"E">>,
            <<"P","R","O","P","A","N","E">>, <<"L","N","G">>, <<"C","N","G">>,
            <<"E","T","H","A","N","O","L">>, <<"H","Y","D","R","O","G","E","N">>,
            <<"H","Y","B","R","I","D">>, <<"L">>} |->
        CASE c = <<"P">> -> "PETROL"
          [] c = <<"D">> -> "DIESEL"
          [] c = <<"G">> -> "LPG"
          [] c = <<"E">> -> "ELECTRIC"
          [] c = <<"P","R","O","P","A","N","E">> -> "PROPANE"
          [] c = <<"L","N","G">> -> "LNG"
          [] c = <<"C","N","G">> -> "CNG"
          [] c = <<"E","T","H","A","N","O","L">> -> "ETHANOL"
          [] c = <<"H","Y","D","R","O","G","E","N">> -> "HYDROGEN"
          [] c = <<"H","Y","B","R","I","D">> -> "HYBRID"
          [] OTHER -> "AGRICULTURE_FUEL"]

mapFuelType(t) ==
    IF ToUpper(t) \in DOMAIN FuelTypeCodes
    THEN FuelTypeCodes[ToUpper(t)]
    ELSE "FUEL_TYPE_UNRECOGNIZED"

MovementStatusCodes ==
    [c \in {<<"d","r","i","v","i","n","g">>, <<"s","t","a","n","d","i","n","g">>,
            <<"n","o","d","a","t","a">>, <<"n","o","g","p","s">>,
            <<"s","e","r","v","i","c","e">>} |->
        CASE c = <<"d","r","i","v","i","n","g">> -> "DRIVING"
          [] c = <<"s","t","a","n","d","i","n","g">> -> "STANDING"
          [] c = <<"n","o","d","a","t","a">> -> "NODATA"
          [] c = <<"n","o","g","p","s">> -> "NOGPS"
          [] OTHER -> "SERVICE"]

\* A plausible slip: the default branch returns a known member.
mapMovementStatus_defaultStanding(s) ==
    IF ToLower(s) \in DOMAIN MovementStatusCodes
    THEN MovementStatusCodes[ToLower(s)]
    ELSE "STANDING"

mapMovementStatus(s) ==
    IF ToLower(s) \in DOMAIN MovementStatusCodes
    THEN MovementStatusCodes[ToLower(s)]
    ELSE "MOVEMENT_STATUS_UNRECOGNIZED"

RouteTypeCodes ==
    [c \in {<<"r","o","u","t","e">>, <<"s","t","o","p">>} |->
        IF c = <<"r","o","u","t","e">> THEN "ROUTE" ELSE "STOP"]

mapRouteType(t) ==
    IF ToLower(t) \in DOMAIN RouteTypeCodes
    THEN RouteTypeCodes[ToLower(t)]
    ELSE "ROUTE_TYPE_UNRECOGNIZED"

(***************************************************************************)
(* The part every endpoint function repeats: the transport call, the HTTP  *)
(* status check, reading and decoding the body, the API error check, and   *)
(* the deferred wrapping of a non-nil error with the operation's name.     *)
(*                                                                         *)
(* A transport response is [built, transportOK, status, readOK, body]      *)
(* (built: whether the request could be built, "ok" or what failed) and a  *)
(* body                                                                    *)
(* is [decodes, error, data]: whether json.Unmarshal into the endpoint's   *)
(* envelope struct succeeds, the envelope's error member (nil or           *)
(* [code, msg]) and its data member as decoded.  A result is               *)
(* [resp, err, decoded]; decoded records whether json.Unmarshal ran.       *)
(***************************************************************************)
StatusOK == 200

Err(kind, code, msg) == [kind |-> kind, code |-> code, msg |-> msg, wraps |-> <<>>]

Failure(e, decoded) == [resp |-> None, err |-> Some(e), decoded |-> decoded]

Success(payload) == [resp |-> Some(payload), err |-> None, decoded |-> TRUE]

\* newResponseError(httpResponse): the status error, carrying the status code.
newResponseError(rsp) == Err("status", rsp.status, "")

\* A plausible slip: any 2xx status is taken as success.
statusFails_2xx(rsp) == rsp.status < 200 \/ rsp.status > 299

\* `if httpResponse.StatusCode != http.StatusOK`
statusFails(rsp) == rsp.status # StatusOK

\* A plausible slip: the error member is only honoured when data is empty.
apiError_onlyWithoutData(body) ==
    IF IsSome(body.error) /\ body.data = <<>>
    THEN Some(Err("api", Get(body.error).code, Get(body.error).msg))
    ELSE None

\* `if responseBody.Error != nil { return nil, fmt.Errorf("api error %d: %s", ...) }`
apiError(body) ==
    IF IsSome(body.error)
    THEN Some(Err("api", Get(body.error).code, Get(body.error).msg))
    ELSE None

\* The result when the function returns before mapping, or None to go on.
preamble(rsp) ==
    IF rsp.built = "bad url"
    THEN Some(Failure([Err("request", 0, "") EXCEPT !.wraps = <<"invalid request URL">>], FALSE))
    ELSE IF rsp.built = "bad request" THEN Some(Failure(Err("request", 0, ""), FALSE))
    ELSE IF ~rsp.transportOK THEN Some(Failure(Err("transport", 0, ""), FALSE))
    ELSE IF statusFails(rsp) THEN Some(Failure(newResponseError(rsp), FALSE))
    ELSE IF ~rsp.readOK THEN Some(Failure(Err("read", 0, ""), FALSE))
    ELSE IF ~rsp.body.decodes THEN Some(Failure(Err("decode", 0, ""), TRUE))
    ELSE IF IsSome(apiError(rsp.body)) THEN Some(Failure(Get(apiError(rsp.body)), TRUE))
    ELSE None

\* A plausible slip: only the errors made by the function itself are
\* wrapped; what the transport and the decoder return is passed on as is.
wrapped_ownErrorsOnly(op, r) ==
    IF IsSome(r.err) /\ Get(r.err).kind \in {"api", "status"}
    THEN [r EXCEPT !.err = Some([Get(r.err) EXCEPT !.wraps = <<op>> \o @])]
    ELSE r

\* `defer func() { if err != nil { err = fmt.Errorf("mapon: <op>: %w", err) } }()`
wrapped(op, r) ==
    IF IsSome(r.err)
    THEN [r EXCEPT !.err = Some([Get(r.err) EXCEPT !.wraps = <<op>> \o @])]
    ELSE r

(***************************************************************************)
(* Sequences.                                                              *)
(***************************************************************************)
Map(f(_), xs) == [i \in DOMAIN xs |-> f(xs[i])]

RECURSIVE Flatten(_)
Flatten(xss) ==
    IF xss = <<>> THEN <<>> ELSE Head(xss) \o Flatten(Tail(xss))

Reverse(xs) == [i \in DOMAIN xs |-> xs[Len(xs) + 1 - i]]

SeqsUpTo(S, n) == UNION {[1..k -> S] : k \in 0..n}

\* Input lists: every one-element list, and the lists of up to MaxList
\* elements of a few.
Lists(All, Few) == {<<x>> : x \in All} \cup SeqsUpTo(Few, MaxList)

(***************************************************************************)
(* Routes.                                                                 *)
(***************************************************************************)
mapJSONPointToState(p) ==
    [location |-> [latitude |-> p.lat, longitude |-> p.lng, address |-> p.address],
     time |-> parsedTime(RFC3339, p.time),
     fuel_level_l |-> IF IsSome(p.can) THEN Some(Get(p.can).fuel_level_liters) ELSE None,
     odometer_m |-> IF IsSome(p.can) THEN Some(Get(p.can).total_distance * 1000) ELSE None]

\* A plausible slip: one snapshot is built and completed from both points, so
\* the end snapshot inherits the start point's CAN readings.
mapJSONRouteToProto_sharedCan(unitID, j) ==
    [route_id |-> j.route_id,
     unit_id |-> unitID,
     type |-> Some(mapRouteType(j.type)),
     distance_m |-> j.distance,
     unrecognized_type |->
        IF j.type # <<>> /\ mapRouteType(j.type) = "ROUTE_TYPE_UNRECOGNIZED"
        THEN Some(j.type) ELSE None,
     start |-> mapJSONPointToState(j.start),
     end |-> mapJSONPointToState([j.end EXCEPT !.can =
                IF IsSome(j.end.can) THEN j.end.can ELSE j.start.can])]

mapJSONRouteToProto(unitID, j) ==
    [route_id |-> j.route_id,
     unit_id |-> unitID,
     type |-> Some(mapRouteType(j.type)),
     distance_m |-> j.distance,
     unrecognized_type |->
        IF j.type # <<>> /\ mapRouteType(j.type) = "ROUTE_TYPE_UNRECOGNIZED"
        THEN Some(j.type) ELSE None,
     start |-> mapJSONPointToState(j.start),
     end |-> mapJSONPointToState(j.end)]

\* A plausible slip: the routes are prepended, so the result is reversed.
mapRoutes_reversed(units) ==
    Reverse(Flatten([i \in DOMAIN units |->
        [k \in DOMAIN units[i].routes |->
            mapJSONRouteToProto(units[i].unit_id, units[i].routes[k])]]))

\* The loop of ListRoutes: every unit's routes appended to one list.
mapRoutes(units) ==
    Flatten([i \in DOMAIN units |->
        [k \in DOMAIN units[i].routes |->
            mapJSONRouteToProto(units[i].unit_id, units[i].routes[k])]])

listRoutes(rsp) ==
    wrapped("list routes",
        IF IsSome(preamble(rsp)) THEN Get(preamble(rsp))
        ELSE Success(mapRoutes(rsp.body.data)))

(***************************************************************************)
(* Ignitions.                                                              *)
(***************************************************************************)
\* A plausible slip: the events are parsed with the layout of the unit mapper.
mapIgnitionEvent_rfc3339(evt) ==
    [on_time |-> parsedTime(RFC3339, evt.on),
     off_time |-> parsedTimeNonEmpty(RFC3339, evt.off)]

mapIgnitionEvent(evt) ==
    [on_time |-> parsedTime(LocalLayout, evt.on),
     off_time |-> parsedTimeNonEmpty(LocalLayout, evt.off)]

mapUnitIgnitions(u) ==
    [unit_id |-> u.unit_id, ignitions |-> Map(mapIgnitionEvent, u.ignitions)]

listIgnitions(rsp) ==
    wrapped("list ignitions",
        IF IsSome(preamble(rsp)) THEN Get(preamble(rsp))
        ELSE Success(Map(mapUnitIgnitions, rsp.body.data)))

(***************************************************************************)
(* Humidity.                                                               *)
(***************************************************************************)
mapHumidityRecord(h) ==
    [value_percent |-> h.value, time |-> parsedTime(LocalLayout, h.gmt)]

mapHumiditySensor(s) ==
    [number |-> s.no, humidities |-> Map(mapHumidityRecord, s.humidities)]

mapUnitHumidity(u) ==
    [unit_id |-> u.unit_id, sensors |-> Map(mapHumiditySensor, u.sensors)]

listHumidity(rsp) ==
    wrapped("list humidity",
        IF IsSome(preamble(rsp)) THEN Get(preamble(rsp))
        ELSE Success(Map(mapUnitHumidity, rsp.body.data)))

(***************************************************************************)
(* Drivers.                                                                *)
(***************************************************************************)
mapJSONDriverToProto(j) ==
    [driver_id |-> j.id,
     name |-> j.name,
     blocked |-> j.blocked,
     created_at |-> parsedTime(LocalLayout, j.created)]

listDrivers(rsp) ==
    wrapped("list drivers",
        IF IsSome(preamble(rsp)) THEN Get(preamble(rsp))
        ELSE Success(Map(mapJSONDriverToProto, rsp.body.data)))

(***************************************************************************)
(* CAN data for a period and at a point.                                   *)
(***************************************************************************)
mapCanMetric(v) ==
    [value |-> ParseFloat(SprintV(v.value)).v,
     time |-> parsedTime(LocalLayout, v.gmt)]

mapCanMetricList(in) == Map(mapCanMetric, in)

mapAxisWeight(v) ==
    [value_kg |-> ParseFloat(SprintV(v.value)).v,
     axis_id |-> v.axis,
     wheel_id |-> v.wheel,
     time |-> parsedTime(LocalLayout, v.gmt)]

mapAxisWeightList(in) == Map(mapAxisWeight, in)

mapUnitCanPeriodData(u) ==
    [unit_id |-> u.unit_id,
     rpm_average |-> mapCanMetricList(u.rpm_average),
     rpm_max |-> mapCanMetricList(u.rpm_max),
     fuel_level_percent |-> mapCanMetricList(u.fuel_level),
     service_distance_km |-> mapCanMetricList(u.service_distance),
     total_distance_km |-> mapCanMetricList(u.total_distance),
     total_fuel_l |-> mapCanMetricList(u.total_fuel),
     total_engine_hours |-> mapCanMetricList(u.total_engine_hours),
     ambient_temperature_c |-> mapCanMetricList(u.ambient_temperature),
     weight_on_chassis_total_kg |-> mapCanMetricList(u.weight_on_chassis_total),
     ev_battery_rel_percent |->
        IF IsSome(u.ev_values)
        THEN mapCanMetricList(Get(u.ev_values).can_ev_battery_rel) ELSE <<>>,
     ev_battery_abs_kwh |->
        IF IsSome(u.ev_values)
        THEN mapCanMetricList(Get(u.ev_values).can_ev_battery_abs) ELSE <<>>,
     ev_charging |->
        IF IsSome(u.ev_values)
        THEN mapCanMetricList(Get(u.ev_values).ev_charging) ELSE <<>>,
     weight_on_axis |-> mapAxisWeightList(u.weight_on_axis)]

listCanPeriodData(rsp) ==
    wrapped("list can period data",
        IF IsSome(preamble(rsp)) THEN Get(preamble(rsp))
        ELSE Success(Map(mapUnitCanPeriodData, rsp.body.data)))

mapCanPointAxisWeight(w) ==
    [value_kg |-> w.value, axis_id |-> w.axis, wheel_id |-> w.wheel]

\* One CanDataPoint; its time is the request's datetime.
mapCanDataPoint(datetime, u) ==
    [time |-> datetime,
     rpm_average |-> Trunc(parseCanFloat(u.rpm_average.value)),
     rpm_max |-> Trunc(parseCanFloat(u.rpm_max.value)),
     fuel_level_percent |-> parseCanFloat(u.fuel_level.value),
     total_distance_km |-> Trunc(parseCanFloat(u.total_distance.value)),
     total_fuel_l |-> parseCanFloat(u.total_fuel.value),
     total_engine_hours |-> parseCanFloat(u.total_engine_hours.value),
     ambient_temperature_c |-> parseCanFloat(u.ambient_temperature.value),
     axis_weights |-> Map(mapCanPointAxisWeight, u.weight_on_axis)]

getCanDataPoint(datetime, rsp) ==
    wrapped("get can point data",
        IF IsSome(preamble(rsp)) THEN Get(preamble(rsp))
        ELSE Success([i \in DOMAIN rsp.body.data |->
                        mapCanDataPoint(datetime, rsp.body.data[i])]))

(***************************************************************************)
(* The unit mapper.                                                        *)
(***************************************************************************)
\* strconv.ParseInt(s, 10, 32): (value, err).
ParseInt32(s) ==
    LET signed == Len(s) > 0 /\ s[1] \in {"-", "+"}
        body == IF signed THEN SubSeq(s, 2, Len(s)) ELSE s
        n == DigitsValue(body)
    IN  IF Len(body) > 0 /\ AllDigits(body) /\ n <= 2147483647
        THEN [ok |-> TRUE, v |-> IF signed /\ s[1] = "-" THEN -n ELSE n]
        ELSE [ok |-> FALSE, v |-> 0]

\* strings.HasPrefix / strings.TrimPrefix on a key whose first token is the
\* prefix.
HasPrefix(k, prefix) == Len(k) >= 1 /\ k[1] = prefix

TrimPrefix(k, prefix) == IF HasPrefix(k, prefix) THEN Tail(k) ELSE k

\* `if p != nil && *p != "" { u.SetX(*p) }`
nonEmptyString(p) == IF IsSome(p) /\ Get(p) # "" THEN p ELSE None

\* `if s != "" { x.SetX(s) }` on a plain string member.
nonEmptyPlain(s) == IF s # "" THEN Some(s) ELSE None

\* `if p != nil { x.SetX(*p) }`
ifPresent(p) == p

\* A typed value with its own time: the value whenever the object is there,
\* the time when gmt is non-empty and parses.
typedValue(x) == IF IsSome(x) THEN Some(Get(x).value) ELSE None

typedTime(x) ==
    IF IsSome(x) THEN parsedTimeNonEmpty(RFC3339, Get(x).gmt) ELSE None

\* `if x != nil && x.Value != nil { v, _ := parseFloat(x.Value); ... }`
flexOn(x) == IsSome(x) /\ Get(x).value.t # "null"

flexValue(x) == IF flexOn(x) THEN Some(parseFloat(Get(x).value).v) ELSE None

flexTime(x) ==
    IF flexOn(x) THEN parsedTimeNonEmpty(RFC3339, Get(x).gmt) ELSE None

Half == [m |-> 5, e |-> 1]

\* A plausible slip: the threshold itself counts as on.
flexSwitch_atLeastHalf(x) ==
    IF flexOn(x) THEN Some(~Greater(Half, parseFloat(Get(x).value).v)) ELSE None

flexSwitch(x) ==
    IF flexOn(x) THEN Some(Greater(parseFloat(Get(x).value).v, Half)) ELSE None

flexPositive(x) ==
    IF flexOn(x) THEN Some(Greater(parseFloat(Get(x).value).v, Zero)) ELSE None

\* A member of an optional object, or nil when the object is nil.
Member(o, f) == IF IsSome(o) THEN Get(o)[f] ELSE None

mapFuelEntry(f) ==
    [type |-> nonEmptyPlain(f.type),
     metrics |-> nonEmptyPlain(f.metrics),
     value |-> f.value,
     last_update |->
        IF IsSome(f.last_update)
        THEN parsedTimeNonEmpty(RFC3339, Get(f.last_update)) ELSE None]

\* fuel_level_l after the loop over the first n fuel entries:
\* `if f.Metrics == "L" && state.GetFuelLevelL() == 0 { state.SetFuelLevelL(f.Value) }`
RECURSIVE fuelLevelL(_, _)
fuelLevelL(fuel, n) ==
    IF n = 0 THEN None
    ELSE LET before == fuelLevelL(fuel, n - 1)
             got == IF IsSome(before) THEN Get(before) ELSE 0
         IN  IF fuel[n].metrics = "L" /\ got = 0
             THEN Some(fuel[n].value) ELSE before

\* `for k, v := range m`: the keys of m in the order the runtime visits
\* them in this execution.  ord lists the dynamic keys of the document; Go
\* leaves the order of a map range unspecified, so ord is any enumeration.
rangeOver(m, ord) == SelectSeq(ord, LAMBDA k : k \in DOMAIN m)

\* Every order in which the keys K can be visited.
RangeOrders(K) ==
    {o \in [1..Cardinality(K) -> K] : \A i, k \in DOMAIN o : i # k => o[i] # o[k]}

\* `tankVolumes[int32(axisNum)] = vol` after the first n keys of the range:
\* a later key with the same index ("0", "00") overwrites an earlier one.
RECURSIVE tankVolumes(_, _, _)
tankVolumes(ft, keys, n) ==
    IF n = 0 THEN {}
    ELSE LET before == tankVolumes(ft, keys, n - 1)
             k == keys[n]
             axisStr == TrimPrefix(k, "fuel_tank_vol_")
         IN  IF /\ HasPrefix(k, "fuel_tank_vol_")
                /\ axisStr # <<>>
                /\ ParseInt32(axisStr).ok
                /\ ft[k].t = "num"
             THEN {p \in before : p[1] # ParseInt32(axisStr).v}
                    \cup {<<ParseInt32(axisStr).v, ft[k].v>>}
             ELSE before

mapFuelTank(ft, ord) ==
    LET total == IF <<"total_vol">> \in DOMAIN ft /\ ft[<<"total_vol">>].t = "num"
                 THEN Some(ft[<<"total_vol">>].v) ELSE None
        keys == rangeOver(ft, ord)
    IN  [total_vol_l |-> total,
         tank_volumes_l |-> tankVolumes(ft, keys, Len(keys))]

mapTechnicalDetails(td) ==
    [stage_classification |-> ifPresent(td.stage_classification),
     emission_class |-> ifPresent(td.emission_class),
     gross_weight_kg |-> ifPresent(td.gross_weight),
     make_year |-> ifPresent(td.make_year),
     make_month |-> ifPresent(td.make_month),
     power_ps |-> ifPresent(td.power_ps),
     power_kw |-> ifPresent(td.power_kw),
     cubic_capacity_l |-> ifPresent(td.cubic_capacity),
     co2_emissions |->
        IF IsSome(td.co2_emissions)
        THEN Some([value |-> SprintV(Get(td.co2_emissions).value),
                   metrics |-> Get(td.co2_emissions).metrics])
        ELSE None]

mapDevice(d) ==
    [device_id |-> d.id,
     serial_number |-> d.serial_number,
     imei |-> IF SprintV(d.imei) # <<>> THEN Some(SprintV(d.imei)) ELSE None,
     sim |-> nonEmptyPlain(d.sim)]

mapMovementState(ms) ==
    [name |-> nonEmptyPlain(ms.name),
     start |-> parsedTime(RFC3339, ms.start),
     duration_s |-> ms.duration]

mapConnected(c) ==
    [unit_id |-> nonEmptyPlain(c.unit_id),
     type |-> nonEmptyPlain(c.type),
     location |->
        IF IsSome(c.location)
        THEN Some([latitude |->
                      IF ParseFloat(Get(c.location).lat).ok
                      THEN Some(ParseFloat(Get(c.location).lat).v) ELSE None,
                   longitude |->
                      IF ParseFloat(Get(c.location).lng).ok
                      THEN Some(ParseFloat(Get(c.location).lng).v) ELSE None])
        ELSE None]

mapObjectLocation(o) == [object_id |-> o.object_id, name |-> o.name]

mapSavedValue(sv) ==
    [key |-> sv.key, value |-> sv.value, gmt |-> parsedTime(LocalLayout, sv.gmt)]

\* A driver embedded in a unit.
mapUnitDriver(d) ==
    [driver_id |-> d.driver_id,
     name |-> d.name,
     blocked |-> d.blocked > 0,
     created_at |-> parsedTime(RFC3339, d.created_at)]

mapRelay(r) ==
    [relay_id |-> r.relay_id, relay_state |-> r.relay_state, enabled |-> r.enabled]

mapReefer(r) ==
    [refrigerator_type |-> ifPresent(r.refrigerator_type),
     refrigerator_compartment_count |-> ifPresent(r.refrigerator_compartment_count),
     refrigerator_communication_type |-> ifPresent(r.refrigerator_communication_type)]

mapAxis(a) ==
    [weight_kg |-> IF a.value.t # "null" THEN Some(parseFloat(a.value).v) ELSE None,
     time |-> parsedTimeNonEmpty(RFC3339, a.gmt)]

\* `axisWeights[int32(axisNum)] = aw` after the first n keys of the range
\* (a set of <<index, weight>>); a later key with the same index overwrites.
RECURSIVE axisWeights(_, _, _)
axisWeights(axis, keys, n) ==
    IF n = 0 THEN {}
    ELSE LET before == axisWeights(axis, keys, n - 1)
             axisNum == ParseInt32(keys[n])
         IN  IF axisNum.ok
             THEN {p \in before : p[1] # axisNum.v}
                    \cup {<<axisNum.v, mapAxis(axis[keys[n]])>>}
             ELSE before

mapAxisWeights(axis, ord) ==
    axisWeights(axis, rangeOver(axis, ord), Len(rangeOver(axis, ord)))

mapUnitState(j, ord) ==
    [location |-> [latitude |-> j.lat, longitude |-> j.lng],
     speed_kmh |-> ifPresent(j.speed),
     direction_deg |-> j.direction,
     odometer_m |-> Trunc(j.mileage),
     ignition_total_duration_s |-> j.ignition_total_time,
     movement_status |->
        IF j.state.name # <<>> THEN Some(mapMovementStatus(j.state.name)) ELSE None,
     unrecognized_movement_status |->
        IF j.state.name # <<>>
           /\ mapMovementStatus(j.state.name) = "MOVEMENT_STATUS_UNRECOGNIZED"
        THEN Some(j.state.name) ELSE None,
     duration_s |-> j.state.duration,
     start_time |-> parsedTime(RFC3339, j.state.start),
     time |-> parsedTime(RFC3339, j.last_update),
     fuel_entries |-> Map(mapFuelEntry, j.fuel),
     fuel_level_l |-> fuelLevelL(j.fuel, Len(j.fuel)),
     supply_voltage_v |-> typedValue(j.supply_voltage),
     supply_voltage_time |-> typedTime(j.supply_voltage),
     battery_voltage_v |-> typedValue(j.battery_voltage),
     battery_voltage_time |-> typedTime(j.battery_voltage),
     ignition_state |->
        IF IsSome(j.ignition) THEN Some(Get(j.ignition).value = "on") ELSE None,
     ignition_time |-> typedTime(j.ignition),
     ambient_temperature_c |-> typedValue(j.ambienttemp),
     ambient_temperature_time |-> typedTime(j.ambienttemp),
     debug_message |->
        IF IsSome(j.state.debug_info)
        THEN nonEmptyPlain(Get(j.state.debug_info).msg) ELSE None,
     \* The CAN odometer: only its time is ever stored.
     can_odometer_m |-> None,
     can_odometer_time |-> flexTime(Member(j.can, "odom")),
     total_fuel_used_lifetime_l |-> flexValue(Member(j.can, "fuel_total")),
     can_fuel_total_time |-> flexTime(Member(j.can, "fuel_total")),
     can_engine_rpm |-> flexValue(Member(j.can, "engine_rpm_avg")),
     can_engine_rpm_time |-> flexTime(Member(j.can, "engine_rpm_avg")),
     can_fuel_level_l |-> flexValue(Member(j.can, "can_fuel")),
     can_fuel_level_time |-> flexTime(Member(j.can, "can_fuel")),
     can_engine_hours_h |-> flexValue(Member(j.can, "engine_hours")),
     can_engine_hours_time |-> flexTime(Member(j.can, "engine_hours")),
     can_service_brake_switch |-> flexSwitch(Member(j.can, "service_brake_switch")),
     can_service_brake_switch_time |-> flexTime(Member(j.can, "service_brake_switch")),
     can_parking_brake_switch |-> flexSwitch(Member(j.can, "parking_brake_switch")),
     can_parking_brake_switch_time |-> flexTime(Member(j.can, "parking_brake_switch")),
     can_engine_load_percent |-> flexValue(Member(j.can, "engine_load")),
     can_engine_load_time |-> flexTime(Member(j.can, "engine_load")),
     gross_combination_weight_kg |-> flexValue(Member(j.weights, "combination_weight")),
     combination_weight_time |-> flexTime(Member(j.weights, "combination_weight")),
     powered_weight_kg |-> flexValue(Member(j.weights, "powered_weight")),
     powered_weight_time |-> flexTime(Member(j.weights, "powered_weight")),
     axis_weights |->
        IF IsSome(j.weights) THEN mapAxisWeights(Get(j.weights).axis, ord) ELSE {},
     battery_soc_percent |-> flexValue(Member(j.ev_values, "can_ev_battery_rel")),
     battery_soc_percent_time |-> flexTime(Member(j.ev_values, "can_ev_battery_rel")),
     battery_soc_kwh |-> flexValue(Member(j.ev_values, "can_ev_battery_abs")),
     battery_soc_kwh_time |-> flexTime(Member(j.ev_values, "can_ev_battery_abs")),
     charging_state |-> flexPositive(Member(j.ev_values, "ev_charging")),
     ev_charging_time |-> flexTime(Member(j.ev_values, "ev_charging")),
     ev_charger_connected |-> flexPositive(Member(j.ev_values, "ev_charger_connected")),
     ev_charger_connected_time |-> flexTime(Member(j.ev_values, "ev_charger_connected")),
     \* Altitude: value and time are set independently of each other.
     altitude_m |->
        IF IsSome(j.altitude) /\ Get(j.altitude).value.t # "null"
        THEN Some(parseFloat(Get(j.altitude).value).v) ELSE None,
     altitude_time |-> typedTime(j.altitude),
     adblue_level_fraction |->
        IF j.adblue_level_fraction.t # "null"
        THEN Some(parseFloat(j.adblue_level_fraction).v) ELSE None]

mapJSONUnitToProto(j, ord) ==
    [unit_id |-> j.unit_id,
     company_id |-> j.company_id,
     box_id |-> j.box_id,
     label |-> nonEmptyString(j.label),
     number |-> nonEmptyString(j.number),
     shortcut |-> nonEmptyString(j.shortcut),
     country_code |-> nonEmptyString(j.country_code),
     vehicle_title |-> nonEmptyString(j.vehicle_title),
     car_reg_certificate |-> nonEmptyString(j.car_reg_certificate),
     reg_country |-> nonEmptyString(j.reg_country),
     vin |-> nonEmptyString(j.vin),
     type |->
        IF IsSome(j.type) /\ Get(j.type) # <<>>
        THEN Some(mapUnitType(Get(j.type))) ELSE None,
     icon |-> nonEmptyString(j.icon),
     fuel_type |->
        IF IsSome(j.fuel_type) /\ Get(j.fuel_type) # <<>>
        THEN Some(mapFuelType(Get(j.fuel_type))) ELSE None,
     unrecognized_fuel_type |->
        IF IsSome(j.fuel_type) /\ Get(j.fuel_type) # <<>>
           /\ mapFuelType(Get(j.fuel_type)) = "FUEL_TYPE_UNRECOGNIZED"
        THEN j.fuel_type ELSE None,
     created_at |-> parsedTime(RFC3339, j.created_at),
     \* u.GetType() is the stored member, or the enum's zero value when the
     \* type was not set; typeStr is then empty.
     unrecognized_type |->
        IF IsSome(j.type) /\ Get(j.type) # <<>>
           /\ mapUnitType(Get(j.type)) = "UNIT_TYPE_UNRECOGNIZED"
        THEN j.type ELSE None,
     device |-> IF IsSome(j.device) THEN Some(mapDevice(Get(j.device))) ELSE None,
     avg_fuel_consumption |->
        IF IsSome(j.avg_fuel_consumption)
        THEN Some([norm |-> Get(j.avg_fuel_consumption).norm,
                   measurement |-> nonEmptyPlain(Get(j.avg_fuel_consumption).measurement)])
        ELSE None,
     fuel_tank |->
        IF IsSome(j.fuel_tank) THEN Some(mapFuelTank(Get(j.fuel_tank), ord)) ELSE None,
     technical_details |->
        IF IsSome(j.technical_details)
        THEN Some(mapTechnicalDetails(Get(j.technical_details))) ELSE None,
     movement_state |->
        IF IsSome(j.movement_state)
        THEN Some(mapMovementState(Get(j.movement_state))) ELSE None,
     connected |->
        IF IsSome(j.connected) THEN Some(mapConnected(Get(j.connected))) ELSE None,
     in_objects |->
        IF IsSome(j.in_objects)
        THEN Map(mapObjectLocation, Get(j.in_objects).objects) ELSE <<>>,
     saved_values |-> Map(mapSavedValue, j.saved_values),
     drivers |-> Map(mapUnitDriver, j.drivers),
     relays |-> Map(mapRelay, j.relays),
     reefer |-> IF IsSome(j.reefer) THEN Some(mapReefer(Get(j.reefer))) ELSE None,
     state |-> mapUnitState(j, ord)]

\* ParseUnitsResponse(data): no transport, no deferred wrapper.
\* The keys of the two maps of a unit that the mapper ranges over.
dynamicKeys(j) ==
    (IF IsSome(j.fuel_tank) THEN DOMAIN Get(j.fuel_tank) ELSE {})
    \cup (IF IsSome(j.weights) THEN DOMAIN Get(j.weights).axis ELSE {})

unitsKeys(units) == UNION {dynamicKeys(units[i]) : i \in DOMAIN units}

\* The units of a response mapped in order, under one range order.
mapUnits(units, ord) == [i \in DOMAIN units |-> mapJSONUnitToProto(units[i], ord)]

parseUnitsResponse(body, ord) ==
    IF ~body.decodes
    THEN Failure([Err("decode", 0, "") EXCEPT !.wraps = <<"failed to unmarshal JSON">>], TRUE)
    ELSE IF IsSome(apiError(body)) THEN Failure(Get(apiError(body)), TRUE)
    ELSE Success(mapUnits(body.data, ord))

listUnits(rsp, ord) ==
    wrapped("list units",
        IF IsSome(preamble(rsp)) THEN Get(preamble(rsp))
        ELSE Success(mapUnits(rsp.body.data, ord)))

(***************************************************************************)
(* GetUnitFields: the fields of a unit are a JSON object decoded into      *)
(* map[string]interface{}; the output list is built by ranging over it.    *)
(***************************************************************************)
mapUnitField(fields, k) == [key |-> k, value |-> SprintV(fields[k])]

mapUnitFields(u, ord) ==
    LET keys == rangeOver(u.fields, ord)
    IN  [unit_id |-> u.unit_id,
         fields |-> [i \in DOMAIN keys |-> mapUnitField(u.fields, keys[i])]]

getUnitFields(rsp, ord) ==
    wrapped("get unit fields",
        IF IsSome(preamble(rsp)) THEN Get(preamble(rsp))
        ELSE Success([i \in DOMAIN rsp.body.data |-> mapUnitFields(rsp.body.data[i], ord)]))

(***************************************************************************)
(* GetDrivingTimeExtended: the envelope keeps data as raw JSON, which is   *)
(* decoded in a second stage into map[string]jsonDriverInfo.  The raw      *)
(* member is [raw, entries]: the kind of JSON value it holds ("absent"     *)
(* when the envelope has no data member) and, for an object, its members   *)
(* as [decodes, info]: whether the member decodes into jsonDriverInfo.     *)
(***************************************************************************)
\* `json.Unmarshal(responseBody.Data, &driverMap)`: (map, ok).
decodeDriverMap(data) ==
    CASE data.raw = "null" -> [ok |-> TRUE, map |-> <<>>]
      [] data.raw = "object" ->
            IF \A k \in DOMAIN data.entries : data.entries[k].decodes
            THEN [ok |-> TRUE, map |-> [k \in DOMAIN data.entries |-> data.entries[k].info]]
            ELSE [ok |-> FALSE, map |-> <<>>]
      [] OTHER -> [ok |-> FALSE, map |-> <<>>]

mapDrivingTimeInfo(d) ==
    [current_state |-> d.current_state,
     driver_id |-> d.driver_id,
     driver_name |-> d.driver_name,
     driver_surname |-> d.driver_surname,
     now_driving_s |-> IF IsSome(d.now) THEN Some(Get(d.now).driving) ELSE None,
     now_driving_remaining_s |->
        IF IsSome(d.now) THEN Some(Get(d.now).driving_remaining) ELSE None,
     today_driving_s |-> IF IsSome(d.today) THEN Some(Get(d.today).driving) ELSE None,
     today_driving_remaining_s |->
        IF IsSome(d.today) THEN Some(Get(d.today).driving_remaining) ELSE None,
     week_driving_s |-> IF IsSome(d.week) THEN Some(Get(d.week).driving) ELSE None,
     week_driving_remaining_s |->
        IF IsSome(d.week) THEN Some(Get(d.week).driving_remaining) ELSE None]

\* `for _, d := range driverMap { ... append(res.Drivers, dti) }`
mapDriverMap(map, ord) ==
    LET keys == rangeOver(map, ord)
    IN  [i \in DOMAIN keys |-> mapDrivingTimeInfo(map[keys[i]])]

getDrivingTimeExtended(rsp, ord) ==
    wrapped("get driving time extended",
        IF IsSome(preamble(rsp)) THEN Get(preamble(rsp))
        ELSE IF ~decodeDriverMap(rsp.body.data).ok
        THEN Failure([Err("decode", 0, "") EXCEPT
                        !.wraps = <<"failed to parse drivers map">>], TRUE)
        ELSE Success(mapDriverMap(decodeDriverMap(rsp.body.data).map, ord)))

(***************************************************************************)
(* ListTellTaleValues: data is an object keyed by the unit ID written in   *)
(* decimal, map[string][]jsonTellTaleValue.                                *)
(***************************************************************************)
\* strconv.FormatInt(n, 10)
FormatInt(n) == IF n < 0 THEN <<"-">> \o NatDigits(-n) ELSE NatDigits(n)

mapTellTaleValue(v) ==
    [name |-> v.name,
     telltale_id |-> v.telltale_id,
     value |-> v.value,
     value_title |-> v.value_title,
     time |-> parsedTime(RFC3339, v.datetime)]

\* A plausible slip: without an entry for the requested unit the values of
\* another unit of the response are returned.
tellTaleValues_anyUnit(unitID, data) ==
    IF FormatInt(unitID) \in DOMAIN data
    THEN Map(mapTellTaleValue, data[FormatInt(unitID)])
    ELSE IF DOMAIN data # {}
    THEN Map(mapTellTaleValue, data[CHOOSE k \in DOMAIN data : TRUE])
    ELSE <<>>

\* `if list, ok := responseBody.Data[unitIDStr]; ok { ... append ... }`
tellTaleValues(unitID, data) ==
    IF FormatInt(unitID) \in DOMAIN data
    THEN Map(mapTellTaleValue, data[FormatInt(unitID)])
    ELSE <<>>

listTellTaleValues(unitID, rsp) ==
    wrapped("list tell tale values",
        IF IsSome(preamble(rsp)) THEN Get(preamble(rsp))
        ELSE Success([unit_id |-> unitID,
                      values |-> tellTaleValues(unitID, rsp.body.data)]))

(***************************************************************************)
(* Alerts.                                                                 *)
(***************************************************************************)
\* strings.Split(s, ","): the parts between the commas, one more than there
\* are commas.
RECURSIVE Split(_)
Split(s) ==
    IF \A i \in DOMAIN s : s[i] # "," THEN <<s>>
    ELSE LET i == CHOOSE k \in DOMAIN s : s[k] = "," /\ \A m \in 1..(k - 1) : s[m] # ","
         IN  <<SubSeq(s, 1, i - 1)>> \o Split(SubSeq(s, i + 1, Len(s)))

\* A plausible slip: what follows the second part is ignored.
alertLocation_firstTwoParts(j) ==
    IF j.location # <<>> /\ Len(Split(j.location)) >= 2
    THEN Some([latitude |-> ParseFloat(Split(j.location)[1]).v,
               longitude |-> ParseFloat(Split(j.location)[2]).v,
               address |-> j.address])
    ELSE None

\* `if j.Location != "" { parts := strings.Split(...); if len(parts) == 2 {...} }`
alertLocation(j) ==
    IF j.location # <<>> /\ Len(Split(j.location)) = 2
    THEN Some([latitude |-> ParseFloat(Split(j.location)[1]).v,
               longitude |-> ParseFloat(Split(j.location)[2]).v,
               address |-> j.address])
    ELSE None

mapJSONAlertToProto(j) ==
    [alert_id |-> j.id,
     unit_id |-> j.unit_id,
     type |-> j.alert_type,
     message |-> j.msg,
     time |-> parsedTime(RFC3339, j.time),
     location |-> alertLocation(j)]

listAlerts(rsp) ==
    wrapped("list alerts",
        IF IsSome(preamble(rsp)) THEN Get(preamble(rsp))
        ELSE Success(Map(mapJSONAlertToProto, rsp.body.data)))

(***************************************************************************)
(* ListUnitsInGroup: data.units is a list of [id].                         *)
(***************************************************************************)
groupUnitID(u) == u.id

listUnitsInGroup(rsp) ==
    wrapped("list units in group",
        IF IsSome(preamble(rsp)) THEN Get(preamble(rsp))
        ELSE Success(Map(groupUnitID, rsp.body.data)))

(***************************************************************************)
(* The JSON the vendor can send, as decoded into the json* structs.        *)
(***************************************************************************)
EnumAlphabet == {"l", "P", "x"}

\* Strings for an enum member: the short strings over EnumAlphabet, and the
\* known codes as written, upper-cased and lower-cased.
EnumStrings(codes) ==
    SeqsUpTo(EnumAlphabet, MaxStrLen) \cup codes
        \cup {ToUpper(c) : c \in codes} \cup {ToLower(c) : c \in codes}

TimeStrings ==
    {<<>>, <<"D1", "T", "C1", "Z">>, <<"D2", "T", "C2", "+01">>,
     <<"D1", " ", "C1">>, <<"D2", " ", "C2">>, <<"D1", "T", "C1">>, <<"junk">>}

GoodTime == <<"D1", "T", "C1", "Z">>

GoodLocalTime == <<"D1", " ", "C1">>

NumAlphabet == {"0", "5", ".", "-", "x"}

NumStrings == SeqsUpTo(NumAlphabet, MaxStrLen)

\* The JSON number grammar: -? (0 | [1-9][0-9]*) (. [0-9]+)?
IsJSONNumber(s) ==
    LET body == IF Len(s) > 0 /\ s[1] = "-" THEN Tail(s) ELSE s
        d == DotPos(body)
        ip == IF d = 0 THEN body ELSE SubSeq(body, 1, d - 1)
        fp == IF d = 0 THEN <<>> ELSE SubSeq(body, d + 1, Len(body))
    IN  /\ Len(ip) > 0 /\ AllDigits(ip)
        /\ (Len(ip) > 1 => ip[1] # "0")
        /\ (d # 0 => Len(fp) > 0 /\ AllDigits(fp))

JSONNumberLiterals == {s \in NumStrings : IsJSONNumber(s)}

\* json.Unmarshal of a number literal into interface{}: a float64.
DecodeNumber(s) == JNum(ParseFloat(s).v)

\* Every value an interface{} member can decode to.
FlexValues ==
    {JNull, JTrue, JArr, JObj} \cup {JStr(s) : s \in NumStrings}
        \cup {DecodeNumber(s) : s \in JSONNumberLiterals}

FewFlexValues ==
    {JNull, JArr, JStr(<<"x">>), JStr(<<"5", ".", "5">>), DecodeNumber(<<"5">>)}

jsonError(code, msg) == [code |-> code, msg |-> msg]

ErrorMembers == {jsonError(0, ""), jsonError(7, "invalid key")}

\* A body that decodes into the envelope struct, and one that does not.
Body(error, data) == [decodes |-> TRUE, error |-> error, data |-> data]

Undecodable == [decodes |-> FALSE, error |-> None, data |-> <<>>]

Response(status, body) ==
    [built |-> "ok", transportOK |-> TRUE, status |-> status, readOK |-> TRUE,
     body |-> body]

OtherStatuses == {204, 404, 500}

\* What the transport can hand to an endpoint function whose data member
\* ranges over Data; rich is a well-formed non-empty data member.
\* empty is the data member of a document without records.
ResponsesWith(Data, rich, empty) ==
    {[Response(StatusOK, Undecodable) EXCEPT !.built = "bad url"],
     [Response(StatusOK, Undecodable) EXCEPT !.built = "bad request"],
     [Response(StatusOK, Undecodable) EXCEPT !.transportOK = FALSE],
     [Response(StatusOK, Undecodable) EXCEPT !.readOK = FALSE],
     Response(StatusOK, Undecodable)}
    \cup {Response(s, Body(e, d)) :
            s \in OtherStatuses,
            e \in {None} \cup {Some(x) : x \in ErrorMembers},
            d \in {empty, rich}}
    \cup {Response(StatusOK, Body(Some(e), d)) : e \in ErrorMembers, d \in {empty, rich}}
    \cup {Response(StatusOK, Body(None, d)) : d \in Data}

Responses(Data, rich) == ResponsesWith(Data, rich, <<>>)

(***************************************************************************)
(* Data members of the list endpoints.                                     *)
(***************************************************************************)
jsonRoutePoint(time, can) ==
    [time |-> time, address |-> "Riga", lat |-> 56, lng |-> 24, can |-> can]

RoutePoints ==
    {jsonRoutePoint(t, c) :
        t \in TimeStrings,
        c \in {None, Some([fuel_level_liters |-> 40, total_distance |-> 12])}}

GoodPoint == jsonRoutePoint(GoodTime, None)

jsonRoute(id, type, start, end) ==
    [route_id |-> id, type |-> type, distance |-> 1200, start |-> start, end |-> end]

AllRoutes ==
    {jsonRoute(1, t, GoodPoint, GoodPoint) : t \in EnumStrings(DOMAIN RouteTypeCodes)}
    \cup {jsonRoute(1, <<"s","t","o","p">>, a, b) : a \in RoutePoints, b \in RoutePoints}

FewRoutes ==
    {jsonRoute(1, <<"r","o","u","t","e">>, GoodPoint, GoodPoint),
     jsonRoute(2, <<"x">>, GoodPoint, jsonRoutePoint(<<"junk">>, None))}

jsonUnitRoutes(id, routes) == [unit_id |-> id, routes |-> routes]

RichRoutes == <<jsonUnitRoutes(1, <<jsonRoute(1, <<"r","o","u","t","e">>, GoodPoint, GoodPoint)>>)>>

RouteData ==
    Lists({jsonUnitRoutes(1, rs) : rs \in Lists(AllRoutes, FewRoutes)},
          {jsonUnitRoutes(1, rs) : rs \in SeqsUpTo(FewRoutes, MaxList)})

jsonIgnition(on, off) == [on |-> on, off |-> off]

jsonUnitIgnitions(id, ignitions) == [unit_id |-> id, ignitions |-> ignitions]

RichIgnitions == <<jsonUnitIgnitions(1, <<jsonIgnition(GoodLocalTime, GoodLocalTime)>>)>>

IgnitionData ==
    Lists({jsonUnitIgnitions(1, es) :
              es \in Lists({jsonIgnition(a, b) : a \in TimeStrings, b \in TimeStrings},
                           {jsonIgnition(GoodLocalTime, <<>>), jsonIgnition(<<"junk">>, GoodLocalTime)})},
          {jsonUnitIgnitions(1, <<jsonIgnition(GoodLocalTime, <<>>)>>),
           jsonUnitIgnitions(2, <<>>)})

jsonHumidity(gmt, value) == [gmt |-> gmt, value |-> value]

jsonHumiditySensor(no, humidities) == [no |-> no, humidities |-> humidities]

jsonUnitHumidity(id, sensors) == [unit_id |-> id, sensors |-> sensors]

RichHumidity ==
    <<jsonUnitHumidity(1, <<jsonHumiditySensor(1, <<jsonHumidity(GoodLocalTime, 40)>>)>>)>>

HumidityRecordLists ==
    Lists({jsonHumidity(t, v) : t \in TimeStrings, v \in {40, 55}},
          {jsonHumidity(GoodLocalTime, 40), jsonHumidity(<<"junk">>, 55)})

HumiditySensorLists ==
    Lists({jsonHumiditySensor(1, hs) : hs \in HumidityRecordLists},
          {jsonHumiditySensor(1, <<jsonHumidity(GoodLocalTime, 40)>>),
           jsonHumiditySensor(2, <<>>)})

HumidityData ==
    Lists({jsonUnitHumidity(1, ss) : ss \in HumiditySensorLists},
          {jsonUnitHumidity(1, <<jsonHumiditySensor(1, <<jsonHumidity(GoodLocalTime, 40)>>)>>),
           jsonUnitHumidity(2, <<>>)})

jsonDriver(id, blocked, created) ==
    [id |-> id, name |-> "Ann", blocked |-> blocked, created |-> created]

RichDrivers == <<jsonDriver(1, FALSE, GoodLocalTime)>>

DriverData ==
    Lists({jsonDriver(1, b, t) : b \in BOOLEAN, t \in TimeStrings},
          {jsonDriver(1, FALSE, GoodLocalTime), jsonDriver(2, TRUE, GoodTime)})

(***************************************************************************)
(* Data members of the CAN endpoints.                                      *)
(***************************************************************************)
jsonCanValue(gmt, value) == [gmt |-> gmt, value |-> value]

jsonAxisWeight(gmt, value) == [gmt |-> gmt, value |-> value, axis |-> 1, wheel |-> 2]

\* A value with every decodable content under a good time, and a few
\* contents under every time string.
AllCanValues ==
    {jsonCanValue(GoodLocalTime, v) : v \in FlexValues}
    \cup {jsonCanValue(t, v) : t \in TimeStrings, v \in FewFlexValues}

FewCanValues ==
    {jsonCanValue(GoodLocalTime, DecodeNumber(<<"5">>)), jsonCanValue(<<"junk">>, JStr(<<"x">>))}

CanMetricLists == Lists(AllCanValues, FewCanValues)

AxisWeightLists ==
    Lists({jsonAxisWeight(c.gmt, c.value) : c \in AllCanValues},
          {jsonAxisWeight(c.gmt, c.value) : c \in FewCanValues})

CanPeriodMetrics ==
    {"rpm_average", "rpm_max", "fuel_level", "service_distance", "total_distance",
     "total_fuel", "total_engine_hours", "ambient_temperature", "weight_on_chassis_total"}

CanPeriodEvMetrics == {"can_ev_battery_rel", "can_ev_battery_abs", "ev_charging"}

NoEvValues == [f \in CanPeriodEvMetrics |-> <<>>]

BaseCanPeriodUnit ==
    [f \in CanPeriodMetrics \cup {"weight_on_axis"} |-> <<>>]
        @@ [unit_id |-> 1, ev_values |-> None]

CanPeriodUnits ==
    {[BaseCanPeriodUnit EXCEPT ![f] = l] : f \in CanPeriodMetrics, l \in CanMetricLists}
    \cup {[BaseCanPeriodUnit EXCEPT !.ev_values = Some([NoEvValues EXCEPT ![f] = l])] :
            f \in CanPeriodEvMetrics, l \in CanMetricLists}
    \cup {[BaseCanPeriodUnit EXCEPT !.weight_on_axis = l] : l \in AxisWeightLists}

RichCanPeriod ==
    <<[BaseCanPeriodUnit EXCEPT
         !.rpm_average = <<jsonCanValue(GoodLocalTime, DecodeNumber(<<"5">>))>>]>>

CanPeriodData ==
    Lists(CanPeriodUnits,
          {RichCanPeriod[1], [BaseCanPeriodUnit EXCEPT !.unit_id = 2]})

CanPointMetrics ==
    {"rpm_average", "rpm_max", "fuel_level", "total_distance", "total_fuel",
     "total_engine_hours", "ambient_temperature"}

jsonCanAxisWeight(value) == [value |-> value, axis |-> 1, wheel |-> 2]

BaseCanPointUnit ==
    [f \in CanPointMetrics |-> jsonCanValue(GoodLocalTime, DecodeNumber(<<"5">>))]
        @@ [unit_id |-> 1, weight_on_axis |-> <<>>]

CanPointUnits ==
    {[BaseCanPointUnit EXCEPT ![f] = c] : f \in CanPointMetrics, c \in AllCanValues}
    \cup {[BaseCanPointUnit EXCEPT !.weight_on_axis = l] :
            l \in SeqsUpTo({jsonCanAxisWeight(700), jsonCanAxisWeight(0)}, MaxList)}

RichCanPoint == <<BaseCanPointUnit>>

CanPointData ==
    Lists(CanPointUnits, {BaseCanPointUnit, [BaseCanPointUnit EXCEPT !.unit_id = 2]})

\* The request's datetime, as an instant.
Datetimes == {34, 58}

(***************************************************************************)
(* Units as decoded into jsonUnit.  BaseUnit is a plain unit; the inputs   *)
(* are BaseUnit with one member, or one group of members, varied.          *)
(***************************************************************************)
OptionalStringMembers ==
    {"label", "number", "shortcut", "country_code", "vehicle_title",
     "car_reg_certificate", "reg_country", "vin", "icon"}

CanMembers ==
    {"odom", "fuel_total", "engine_rpm_avg", "can_fuel", "engine_hours",
     "service_brake_switch", "parking_brake_switch", "engine_load"}

WeightMembers == {"combination_weight", "powered_weight"}

EvMembers ==
    {"can_ev_battery_rel", "can_ev_battery_abs", "ev_charging", "ev_charger_connected"}

TypedTimedMembers == {"supply_voltage", "battery_voltage", "ambienttemp"}

NoCan == [f \in CanMembers |-> None]

NoWeights == [f \in WeightMembers |-> None] @@ [axis |-> <<>>]

NoEv == [f \in EvMembers |-> None]

NoTechnicalDetails ==
    [stage_classification |-> None, emission_class |-> None, gross_weight |-> None,
     make_year |-> None, make_month |-> None, power_ps |-> None, power_kw |-> None,
     cubic_capacity |-> None, co2_emissions |-> None]

NoReefer ==
    [refrigerator_type |-> None, refrigerator_compartment_count |-> None,
     refrigerator_communication_type |-> None]

BaseUnit ==
    [f \in OptionalStringMembers |-> Some("abc")]
    @@ [unit_id |-> 1, company_id |-> 10, box_id |-> 100,
        type |-> Some(<<"c","a","r">>),
        fuel_type |-> Some(<<"D">>),
        created_at |-> GoodTime,
        last_update |-> GoodTime,
        mileage |-> [m |-> 15005, e |-> 1],
        speed |-> Some(50), direction |-> 90, lat |-> 56, lng |-> 24,
        ignition_total_time |-> 3600,
        state |-> [name |-> <<"d","r","i","v","i","n","g">>, start |-> GoodTime,
                   duration |-> 60, debug_info |-> None],
        movement_state |-> None,
        avg_fuel_consumption |-> None,
        fuel |-> <<>>,
        fuel_tank |-> None,
        supply_voltage |-> None, battery_voltage |-> None, ambienttemp |-> None,
        ignition |-> None,
        device |-> None,
        can |-> None, weights |-> None, ev_values |-> None, altitude |-> None,
        adblue_level_fraction |-> JNull,
        technical_details |-> None,
        connected |-> None,
        in_objects |-> None,
        saved_values |-> <<>>, drivers |-> <<>>, relays |-> <<>>,
        reefer |-> None]

\* A unit whose JSON object is empty: every member at its zero value.
BareUnit ==
    [[f \in DOMAIN BaseUnit |-> IF f \in OptionalStringMembers THEN None ELSE BaseUnit[f]]
        EXCEPT !.unit_id = 0, !.company_id = 0, !.box_id = 0, !.type = None,
               !.fuel_type = None, !.created_at = <<>>, !.last_update = <<>>,
               !.mileage = Zero, !.speed = None, !.direction = 0, !.lat = 0, !.lng = 0,
               !.ignition_total_time = 0,
               !.state = [name |-> <<>>, start |-> <<>>, duration |-> 0, debug_info |-> None]]

OptionalStrings == {None, Some(""), Some("abc")}

\* {gmt, value} objects with an interface{} value, and with a typed one.
FlexTimed ==
    {None}
    \cup {Some([gmt |-> GoodTime, value |-> v]) : v \in FlexValues}
    \cup {Some([gmt |-> t, value |-> v]) : t \in TimeStrings, v \in FewFlexValues}

TypedTimed == {None} \cup {Some([gmt |-> t, value |-> v]) : t \in TimeStrings, v \in {0, 12}}

IgnitionTimed ==
    {None} \cup {Some([gmt |-> t, value |-> v]) : t \in TimeStrings, v \in {"on", "off", ""}}

AxisKeys == {<<"1">>, <<"2">>, <<"x">>}

AxisMaps ==
    UNION {[K -> {[gmt |-> t, value |-> v] :
                    t \in {<<>>, GoodTime, <<"junk">>},
                    v \in {JNull, JStr(<<"x">>), DecodeNumber(<<"5">>)}}] :
           K \in {{}, {<<"1">>}, {<<"x">>}, {<<"1">>, <<"2">>}}}

FuelTankKeys ==
    {<<"total_vol">>, <<"fuel_tank_vol_", "0">>, <<"fuel_tank_vol_">>,
     <<"fuel_tank_vol_", "x">>, <<"other">>}

FuelTanks ==
    {None}
    \cup {Some([k \in K |-> v]) :
            K \in {{}, {<<"total_vol">>}, {<<"fuel_tank_vol_", "0">>},
                   {<<"total_vol">>, <<"fuel_tank_vol_", "0">>}, FuelTankKeys},
            v \in {DecodeNumber(<<"5">>), JStr(<<"5">>)}}

jsonFuel(metrics, value, last_update) ==
    [type |-> "", metrics |-> metrics, value |-> value, last_update |-> last_update]

FuelLists ==
    Lists({jsonFuel(m, v, l) : m \in {"L", "pct", ""}, v \in {0, 40},
                               l \in {None} \cup {Some(t) : t \in TimeStrings}},
          {jsonFuel("L", 0, None), jsonFuel("L", 40, None), jsonFuel("pct", 80, Some(GoodTime))})

TechnicalDetails ==
    {None}
    \cup {Some([NoTechnicalDetails EXCEPT ![f] = v]) :
            f \in {"stage_classification", "emission_class", "make_year", "make_month"},
            v \in OptionalStrings}
    \cup {Some([NoTechnicalDetails EXCEPT
                  !.gross_weight = Some(18000), !.power_kw = Some(300),
                  !.co2_emissions = Some([value |-> v, metrics |-> "g/km"])]) :
            v \in FewFlexValues}

Reefers ==
    {None}
    \cup {Some([NoReefer EXCEPT ![f] = v]) :
            f \in {"refrigerator_type", "refrigerator_communication_type"},
            v \in OptionalStrings}
    \cup {Some([NoReefer EXCEPT !.refrigerator_compartment_count = Some(2)])}

Devices ==
    {None}
    \cup {Some([id |-> 5, serial_number |-> "SN", imei |-> v, sim |-> s]) :
            v \in {JNull, JStr(<<>>), JStr(<<"1", "5">>), DecodeNumber(<<"1", "5">>)},
            s \in {"", "371"}}

MovementStates ==
    {None}
    \cup {Some([name |-> n, start |-> t, duration |-> 60]) :
            n \in {"", "moving"}, t \in TimeStrings}

ConnectedTrailers ==
    {None}
    \cup {Some([unit_id |-> u, type |-> "trailer", location |-> l]) :
            u \in {"", "77"},
            l \in {None} \cup {Some([lat |-> a, lng |-> <<"5">>]) :
                                  a \in {<<>>, <<"1", ".", "5">>, <<"x">>}}}

jsonDriverUnit(id, blocked, created_at) ==
    [driver_id |-> id, name |-> "Ann", blocked |-> blocked, created_at |-> created_at]

UnitDriverLists ==
    Lists({jsonDriverUnit(1, b, t) : b \in {0, 1}, t \in TimeStrings},
          {jsonDriverUnit(1, 0, GoodTime), jsonDriverUnit(2, 1, GoodLocalTime)})

SavedValueLists ==
    Lists({[key |-> "k", value |-> "v", gmt |-> t] : t \in TimeStrings},
          {[key |-> "k", value |-> "v", gmt |-> GoodLocalTime]})

RelayLists ==
    SeqsUpTo({[relay_id |-> 1, relay_state |-> 0, enabled |-> 1],
              [relay_id |-> 2, relay_state |-> 1, enabled |-> 0]}, MaxList)

ObjectLists ==
    {None} \cup {Some([objects |-> l]) :
                   l \in SeqsUpTo({[object_id |-> "o1", name |-> "Depot"]}, MaxList)}

UnitInputs ==
    {BaseUnit, BareUnit}
    \cup {[BaseUnit EXCEPT ![f] = v] : f \in OptionalStringMembers, v \in OptionalStrings}
    \cup {[BaseUnit EXCEPT !.type = t] :
            t \in {None} \cup {Some(c) : c \in EnumStrings(DOMAIN UnitTypeCodes)}}
    \cup {[BaseUnit EXCEPT !.fuel_type = t] :
            t \in {None} \cup {Some(c) : c \in EnumStrings(DOMAIN FuelTypeCodes)}}
    \cup {[BaseUnit EXCEPT !.state.name = n] : n \in EnumStrings(DOMAIN MovementStatusCodes)}
    \cup {[BaseUnit EXCEPT !.created_at = a, !.last_update = b, !.state.start = c] :
            a \in TimeStrings, b \in TimeStrings, c \in {<<>>, GoodTime, <<"junk">>}}
    \cup {[BaseUnit EXCEPT !.state.debug_info = Some([msg |-> m])] : m \in {"", "no gps"}}
    \cup {[BaseUnit EXCEPT ![f] = x] : f \in TypedTimedMembers, x \in TypedTimed}
    \cup {[BaseUnit EXCEPT !.ignition = x] : x \in IgnitionTimed}
    \cup {[BaseUnit EXCEPT !.can = Some([NoCan EXCEPT ![f] = x])] :
            f \in CanMembers, x \in FlexTimed}
    \cup {[BaseUnit EXCEPT !.weights = Some([NoWeights EXCEPT ![f] = x])] :
            f \in WeightMembers, x \in FlexTimed}
    \cup {[BaseUnit EXCEPT !.weights = Some([NoWeights EXCEPT !.axis = a])] : a \in AxisMaps}
    \cup {[BaseUnit EXCEPT !.ev_values = Some([NoEv EXCEPT ![f] = x])] :
            f \in EvMembers, x \in FlexTimed}
    \cup {[BaseUnit EXCEPT !.altitude = x] : x \in FlexTimed}
    \cup {[BaseUnit EXCEPT !.adblue_level_fraction = v] : v \in FlexValues}
    \cup {[BaseUnit EXCEPT !.fuel = l] : l \in FuelLists}
    \cup {[BaseUnit EXCEPT !.fuel_tank = t] : t \in FuelTanks}
    \cup {[BaseUnit EXCEPT !.avg_fuel_consumption = Some([norm |-> 8, measurement |-> m])] :
            m \in {"", "l/100km"}}
    \cup {[BaseUnit EXCEPT !.technical_details = t] : t \in TechnicalDetails}
    \cup {[BaseUnit EXCEPT !.reefer = r] : r \in Reefers}
    \cup {[BaseUnit EXCEPT !.device = d] : d \in Devices}
    \cup {[BaseUnit EXCEPT !.movement_state = m] : m \in MovementStates}
    \cup {[BaseUnit EXCEPT !.connected = c] : c \in ConnectedTrailers}
    \cup {[BaseUnit EXCEPT !.in_objects = o] : o \in ObjectLists}
    \cup {[BaseUnit EXCEPT !.saved_values = l] : l \in SavedValueLists}
    \cup {[BaseUnit EXCEPT !.drivers = l] : l \in UnitDriverLists}
    \cup {[BaseUnit EXCEPT !.relays = l] : l \in RelayLists}

RichUnits == <<BaseUnit>>

UnitData == Lists(UnitInputs, {BaseUnit, [BareUnit EXCEPT !.unit_id = 2]})

\* Bodies handed to ParseUnitsResponse.
UnitBodies ==
    {Undecodable}
    \cup {Body(Some(e), d) : e \in ErrorMembers, d \in {<<>>, RichUnits}}
    \cup {Body(None, d) : d \in UnitData}

(***************************************************************************)
(* Data members of GetUnitFields and GetDrivingTimeExtended.               *)
(***************************************************************************)
FieldKeys == {<<"a">>, <<"b">>}

FieldMaps ==
    UNION {[K -> {JStr(<<"x">>), DecodeNumber(<<"5">>), JNull}] : K \in SUBSET FieldKeys}

jsonUnitFields(id, fields) == [unit_id |-> id, fields |-> fields]

RichUnitFields ==
    <<jsonUnitFields(1, [k \in FieldKeys |-> IF k = <<"a">> THEN JStr(<<"x">>)
                                               ELSE DecodeNumber(<<"5">>)])>>

UnitFieldsData ==
    {<<>>}
    \cup {<<jsonUnitFields(1, f)>> : f \in FieldMaps}
    \cup {RichUnitFields \o <<jsonUnitFields(2, f)>> : f \in FieldMaps}

fieldKeys(units) == UNION {DOMAIN units[i].fields : i \in DOMAIN units}

DrivingPeriods == {None, Some([driving |-> 60, driving_remaining |-> 30])}

jsonDriverInfo(id, now) ==
    [current_state |-> "driving", driver_id |-> id, driver_name |-> "",
     driver_surname |-> "", now |-> now, today |-> None, week |-> None]

\* The members of the drivers object: driver records, and a member that
\* does not decode into jsonDriverInfo.
DriverEntries ==
    {[decodes |-> TRUE, info |-> jsonDriverInfo(id, now)] :
        id \in {7, 8}, now \in DrivingPeriods}
    \cup {[decodes |-> FALSE, info |-> jsonDriverInfo(0, None)]}

DriverKeys == {<<"7">>, <<"8">>}

RawData(raw, entries) == [raw |-> raw, entries |-> entries]

NoDrivers == RawData("null", <<>>)

RichDrivingTime ==
    RawData("object",
        [k \in DriverKeys |->
            [decodes |-> TRUE,
             info |-> jsonDriverInfo(IF k = <<"7">> THEN 7 ELSE 8, None)]])

DrivingTimeData ==
    {RawData(raw, <<>>) : raw \in {"absent", "null", "array", "string"}}
    \cup {RawData("object", e) : e \in UNION {[K -> DriverEntries] : K \in SUBSET DriverKeys}}

(***************************************************************************)
(* Data members of ListTellTaleValues.                                     *)
(***************************************************************************)
jsonTellTaleValue(name, value, datetime) ==
    [name |-> name, telltale_id |-> 3, value |-> value, value_title |-> "on",
     datetime |-> datetime]

TellTales ==
    {jsonTellTaleValue("abs", 1, GoodTime), jsonTellTaleValue("oil", 2, <<"junk">>)}

TellTaleKeys == {<<"1">>, <<"2">>, <<"0", "1">>}

\* The decoded data member: the units of up to two keys; a document without
\* data, or with a null one, decodes to the empty map.
TellTaleData ==
    UNION {[K -> SeqsUpTo(TellTales, MaxList)] :
            K \in {S \in SUBSET TellTaleKeys : Cardinality(S) <= 2}}

NoTellTales == [k \in {} |-> <<>>]

RichTellTales == [k \in {<<"1">>} |-> <<jsonTellTaleValue("abs", 1, GoodTime)>>]

RequestUnitIDs == {1, 12}

(***************************************************************************)
(* Data members of ListAlerts.                                             *)
(***************************************************************************)
jsonAlert(id, location, address) ==
    [id |-> id, unit_id |-> 1, alert_type |-> "speed", msg |-> "too fast",
     time |-> GoodTime, location |-> location, address |-> address]

LocationAlphabet == {"5", ",", "x"}

LocationStrings == SeqsUpTo(LocationAlphabet, MaxStrLen)

RichAlerts == <<jsonAlert(1, <<"5", ",", "5">>, "Riga")>>

AlertData ==
    Lists({jsonAlert(1, l, a) : l \in LocationStrings, a \in {"", "Riga"}},
          {jsonAlert(1, <<"5", ",", "5">>, "Riga"), jsonAlert(2, <<>>, "Riga")})

(***************************************************************************)
(* Data members of ListUnitsInGroup.                                       *)
(***************************************************************************)
GroupUnits == {[id |-> 1], [id |-> 2]}

RichGroupUnits == <<[id |-> 2], [id |-> 1]>>

GroupUnitData == SeqsUpTo(GroupUnits, MaxList)

(***************************************************************************)
(* The Client and its configuration.  A slice is a header [arr, len, cap]  *)
(* over a backing array of the heap: heap[a] is the array at address a.    *)
(* Copying a struct copies the headers of its slices, not their arrays.    *)
(***************************************************************************)
MaxStored == 3

MaxGoroutines == 2

MaxCallOpts == 2

NilSlice == [arr |-> 0, len |-> 0, cap |-> 0]

NilFunc == <<"nil", 0>>

\* The elements of slice s.
Elements(h, s) == [i \in 1..s.len |-> h[s.arr][i]]

\* The capacity append gives the new array when a slice of capacity c has to
\* hold n elements: the runtime doubles a small slice.
growCap(c, n) == IF n > 2 * c THEN n ELSE 2 * c

\* append(s, x) on heap h: with spare capacity x is written into the array
\* s shares with every copy of its header; otherwise the elements move to a
\* new array.
append(h, s, x) ==
    IF s.len < s.cap
    THEN [heap |-> [h EXCEPT ![s.arr][s.len + 1] = x],
          slice |-> [s EXCEPT !.len = s.len + 1]]
    ELSE [heap |-> Append(h, [i \in 1..growCap(s.cap, s.len + 1) |->
                                IF i <= s.len THEN h[s.arr][i]
                                ELSE IF i = s.len + 1 THEN x ELSE NilFunc]),
          slice |-> [arr |-> Len(h) + 1, len |-> s.len + 1,
                     cap |-> growCap(s.cap, s.len + 1)]]

WithAPIKey(apiKey) ==
    [opt |-> "WithAPIKey", apiKey |-> apiKey, debug |-> FALSE, retryCount |-> 0,
     interceptor |-> NilFunc]

WithDebug(debug) ==
    [opt |-> "WithDebug", apiKey |-> "", debug |-> debug, retryCount |-> 0,
     interceptor |-> NilFunc]

WithRetryCount(retryCount) ==
    [opt |-> "WithRetryCount", apiKey |-> "", debug |-> FALSE, retryCount |-> retryCount,
     interceptor |-> NilFunc]

WithInterceptor(interceptor) ==
    [opt |-> "WithInterceptor", apiKey |-> "", debug |-> FALSE, retryCount |-> 0,
     interceptor |-> interceptor]

\* opt(&config): [heap, cfg].
applyOption(h, cfg, o) ==
    CASE o.opt = "WithAPIKey" -> [heap |-> h, cfg |-> [cfg EXCEPT !.apiKey = o.apiKey]]
      [] o.opt = "WithDebug" -> [heap |-> h, cfg |-> [cfg EXCEPT !.debug = o.debug]]
      [] o.opt = "WithRetryCount" ->
            [heap |-> h, cfg |-> [cfg EXCEPT !.retryCount = o.retryCount]]
      [] OTHER ->
            [heap |-> append(h, cfg.interceptors, o.interceptor).heap,
             cfg |-> [cfg EXCEPT !.interceptors =
                        append(h, cfg.interceptors, o.interceptor).slice]]

\* `for _, opt := range opts { opt(&config) }` after the first n options.
RECURSIVE applyOptions(_, _, _, _)
applyOptions(h, cfg, opts, n) ==
    IF n = 0 THEN [heap |-> h, cfg |-> cfg]
    ELSE applyOption(applyOptions(h, cfg, opts, n - 1).heap,
                     applyOptions(h, cfg, opts, n - 1).cfg, opts[n])

newClientConfig ==
    [apiKey |-> "", debug |-> FALSE, retryCount |-> 3, timeout |-> 30,
     interceptors |-> NilSlice]

\* mapon.NewClient(ctx, opts...): [heap, client].
NewClient(h, opts) ==
    [heap |-> applyOptions(h, newClientConfig, opts, Len(opts)).heap,
     client |-> [baseURL |-> "https://mapon.com/api/v1",
                 config |-> applyOptions(h, newClientConfig, opts, Len(opts)).cfg]]

\* A plausible slip: the retry layer is wrapped first, around the default
\* transport.
httpClient_retryInnermost(cfg) ==
    [Timeout |-> cfg.timeout,
     layers |-> <<"default">>
                \o (IF cfg.retryCount > 0 THEN <<"retry">> ELSE <<>>)
                \o (IF cfg.debug THEN <<"debug">> ELSE <<>>)
                \o (IF cfg.apiKey # "" THEN <<"apiKey">> ELSE <<>>)
                \o (IF cfg.interceptors.len > 0 THEN <<"interceptor">> ELSE <<>>),
     apiKey |-> cfg.apiKey,
     interceptors |-> cfg.interceptors,
     maxRetries |-> cfg.retryCount]

\* c.httpClient(cfg): the layers of the transport from the innermost out, and
\* what each layer keeps of cfg; the interceptor layer keeps the slice.
httpClient(cfg) ==
    [Timeout |-> cfg.timeout,
     layers |-> <<"default">>
                \o (IF cfg.debug THEN <<"debug">> ELSE <<>>)
                \o (IF cfg.apiKey # "" THEN <<"apiKey">> ELSE <<>>)
                \o (IF cfg.interceptors.len > 0 THEN <<"interceptor">> ELSE <<>>)
                \o (IF cfg.retryCount > 0 THEN <<"retry">> ELSE <<>>),
     apiKey |-> cfg.apiKey,
     interceptors |-> cfg.interceptors,
     maxRetries |-> cfg.retryCount]

NoHTTPClient == httpClient(newClientConfig)

Goroutines == 1..MaxGoroutines

\* A goroutine that has not called the client.
IdleProc ==
    [pc |-> "idle", opts |-> <<>>, rest |-> <<>>, cfg |-> newClientConfig,
     http |-> NoHTTPClient]

\* The options a client is constructed with: an API key or none, then up to
\* MaxStored interceptors.
StoredOptions ==
    {k \o [i \in 1..n |-> WithInterceptor(<<"stored", i>>)] :
        k \in {<<>>, <<WithAPIKey("stored")>>}, n \in 0..MaxStored}

\* The options goroutine g passes to its call.
CallOptions(g) ==
    SeqsUpTo({WithInterceptor(<<"call", g>>), WithAPIKey("caller"), WithDebug(TRUE)},
             MaxCallOpts)

(***************************************************************************)
(* The credentials file of the CLI.  path: whether the file's path         *)
(* resolves; stat: what os.Stat reports; readable: whether os.ReadFile     *)
(* succeeds; content: the bytes as a JSON document, [t, apiKey] with       *)
(* apiKey the member of an object, [t, s].                                 *)
(***************************************************************************)
NoMember == [t |-> "absent", s |-> ""]

FileContent(t, apiKey) == [t |-> t, apiKey |-> apiKey]

FileContents ==
    {FileContent(t, NoMember) : t \in {"malformed", "null", "array"}}
    \cup {FileContent("object", m) :
            m \in {NoMember, [t |-> "null", s |-> ""], [t |-> "number", s |-> ""],
                   [t |-> "string", s |-> ""], [t |-> "string", s |-> "stored"]}}

CredentialsFile(path, stat, readable, content) ==
    [path |-> path, stat |-> stat, readable |-> readable, content |-> content]

NoFile == CredentialsFile(TRUE, "not exist", FALSE, FileContent("malformed", NoMember))

FileStates ==
    {NoFile,
     CredentialsFile(FALSE, "not exist", FALSE, FileContent("malformed", NoMember)),
     CredentialsFile(TRUE, "error", FALSE, FileContent("malformed", NoMember)),
     CredentialsFile(TRUE, "ok", FALSE, FileContent("object", [t |-> "string", s |-> "stored"]))}
    \cup {CredentialsFile(TRUE, "ok", TRUE, c) : c \in FileContents}

\* json.Unmarshal(data, &f) with f a File: (f, ok).
decodeFile(content) ==
    CASE content.t = "null" -> [ok |-> TRUE, f |-> [APIKey |-> ""]]
      [] content.t = "object" /\ content.apiKey.t \in {"absent", "null"} ->
            [ok |-> TRUE, f |-> [APIKey |-> ""]]
      [] content.t = "object" /\ content.apiKey.t = "string" ->
            [ok |-> TRUE, f |-> [APIKey |-> content.apiKey.s]]
      [] OTHER -> [ok |-> FALSE, f |-> [APIKey |-> ""]]

\* auth.ReadFile(): [f, err].
ReadFile(fs) ==
    IF ~fs.path THEN [f |-> None, err |-> Some("resolve")]
    ELSE IF fs.stat = "not exist" THEN [f |-> None, err |-> Some("no credentials found")]
    ELSE IF fs.stat # "ok" THEN [f |-> None, err |-> Some("stat")]
    ELSE IF ~fs.readable THEN [f |-> None, err |-> Some("read")]
    ELSE IF ~decodeFile(fs.content).ok THEN [f |-> None, err |-> Some("decode")]
    ELSE [f |-> Some(decodeFile(fs.content).f), err |-> None]

\* A plausible slip: the stored key is put before the caller's options.
authNewClient_storedFirst(h, fs, opts) ==
    IF IsSome(ReadFile(fs).err)
    THEN [heap |-> h, resp |-> None, err |-> ReadFile(fs).err]
    ELSE IF Get(ReadFile(fs).f).APIKey = ""
    THEN [heap |-> h, resp |-> None, err |-> Some("no API key found")]
    ELSE [heap |-> NewClient(h, <<WithAPIKey(Get(ReadFile(fs).f).APIKey)>> \o opts).heap,
          resp |-> Some(NewClient(h, <<WithAPIKey(Get(ReadFile(fs).f).APIKey)>> \o opts).client),
          err |-> None]

\* auth.NewClient(ctx, opts...): [heap, resp, err].
authNewClient(h, fs, opts) ==
    IF IsSome(ReadFile(fs).err)
    THEN [heap |-> h, resp |-> None, err |-> ReadFile(fs).err]
    ELSE IF Get(ReadFile(fs).f).APIKey = ""
    THEN [heap |-> h, resp |-> None, err |-> Some("no API key found")]
    ELSE [heap |-> NewClient(h, opts \o <<WithAPIKey(Get(ReadFile(fs).f).APIKey)>>).heap,
          resp |-> Some(NewClient(h, opts \o <<WithAPIKey(Get(ReadFile(fs).f).APIKey)>>).client),
          err |-> None]

\* The options a caller passes to auth.NewClient.
CallerOptions ==
    SeqsUpTo({WithAPIKey("caller"), WithAPIKey(""), WithDebug(TRUE)}, MaxCallOpts)

(***************************************************************************)
(* The login and logout commands of the CLI.  A command is one run of the  *)
(* program; io is what the file system does to it: "ok", "no path" (the    *)
(* path of the file does not resolve), "not written" (os.WriteFile cannot  *)
(* open the file), "partly written" (os.WriteFile fails after truncating   *)
(* the file), "not removed" (os.RemoveAll fails).                          *)
(***************************************************************************)
\* A key whose bytes are not valid UTF-8, and what encoding/json writes for
\* it: each invalid byte becomes U+FFFD.
InvalidUTF8Key == "key\\xff"

toValidUTF8(s) == IF s = InvalidUTF8Key THEN "key\\ufffd" ELSE s

\* json.MarshalIndent(f, "", "  ") as ReadFile will find it: apiKey has
\* omitempty, so an empty key leaves an object without members.
marshalFile(f) ==
    FileContent("object",
        IF f.APIKey = "" THEN NoMember
        ELSE [t |-> "string", s |-> toValidUTF8(f.APIKey)])

\* writeFile(&f): [file, err].
writeFile(fs, f, io) ==
    CASE io = "no path" -> [file |-> fs, err |-> Some("resolve")]
      [] io = "not written" -> [file |-> fs, err |-> Some("write")]
      [] io = "partly written" ->
            [file |-> CredentialsFile(TRUE, "ok", TRUE, FileContent("malformed", NoMember)),
             err |-> Some("write")]
      [] OTHER -> [file |-> CredentialsFile(TRUE, "ok", TRUE, marshalFile(f)),
                   err |-> None]

\* removeFile(): [file, err].  os.RemoveAll of a path that does not exist
\* returns nil.
removeFile(fs, io) ==
    CASE io = "no path" -> [file |-> fs, err |-> Some("resolve")]
      [] io = "not removed" /\ fs.stat # "not exist" -> [file |-> fs, err |-> Some("remove")]
      [] OTHER -> [file |-> NoFile, err |-> None]

\* The key the login command stores: the flag, or what is typed at the
\* prompt when the flag is empty.
loginKey(flag, typed) == IF flag = "" THEN typed ELSE flag

\* RunE of the login command: [file, err, printed].  typed is what
\* term.ReadPassword returns, "unreadable" when it fails.
login(fs, flag, typed, io) ==
    IF flag = "" /\ typed = "unreadable"
    THEN [file |-> fs, err |-> Some("read password"), printed |-> ""]
    ELSE [file |-> writeFile(fs, [APIKey |-> loginKey(flag, typed)], io).file,
          err |-> writeFile(fs, [APIKey |-> loginKey(flag, typed)], io).err,
          printed |-> IF writeFile(fs, [APIKey |-> loginKey(flag, typed)], io).err = None
                      THEN "Logged in." ELSE ""]

\* RunE of the logout command: [file, err, printed].
logout(fs, io) ==
    [file |-> removeFile(fs, io).file,
     err |-> removeFile(fs, io).err,
     printed |-> IF removeFile(fs, io).err = None THEN "Logged out." ELSE ""]

LoginFlags == {"", "stored", "other", InvalidUTF8Key}

TypedKeys == {"", "stored", "unreadable"}

LoginIO == {"ok", "no path", "not written", "partly written"}

LogoutIO == {"ok", "no path", "not removed"}

\* cli: the last command run, [cmd, key, io, before, err, printed], and the
\* last command that succeeded, [okCmd, okKey].
Command(cmd, key, io, before, err, printed, okCmd, okKey) ==
    [cmd |-> cmd, key |-> key, io |-> io, before |-> before, err |-> err,
     printed |-> printed, okCmd |-> okCmd, okKey |-> okKey]

NoCommand == Command("none", "", "ok", NoFile, None, "", "none", "")

(***************************************************************************)
(* The state machine of one caller: a call of an exported function on what *)
(* the transport returns, then the return to the caller.  The client keeps *)
(* nothing between calls.  call is the call in progress and ret its        *)
(* result; co belongs to the specification of the coercions below, client,   *)
(* heap and procs to the specification of the shared client, and file and  *)
(* cli to the specifications of the CLI's credentials.                     *)
(***************************************************************************)
NoCall == [op |-> "none", datetime |-> 0, in |-> Undecodable]

NoResult == [resp |-> None, err |-> None, decoded |-> FALSE]

NoCoercion == [op |-> "none"]

\* A client constructed without options, no goroutine calling it, and no
\* credentials file.
NoSharing ==
    /\ client = NewClient(<<>>, <<>>).client
    /\ heap = <<>>
    /\ procs = [g \in Goroutines |-> IdleProc]
    /\ file = NoFile
    /\ cli = NoCommand

Init ==
    /\ call = NoCall
    /\ ret = NoResult
    /\ co = NoCoercion
    /\ NoSharing

ParseUnitsResponse ==
    /\ call = NoCall
    /\ \E body \in UnitBodies :
       \E ord \in RangeOrders(unitsKeys(body.data)) :
        /\ call' = [op |-> "ParseUnitsResponse", datetime |-> 0, in |-> body]
        /\ ret' = parseUnitsResponse(body, ord)
        /\ UNCHANGED <<co, client, heap, procs, file, cli>>

ListUnits ==
    /\ call = NoCall
    /\ \E rsp \in Responses(UnitData, RichUnits) :
       \E ord \in RangeOrders(unitsKeys(rsp.body.data)) :
        /\ call' = [op |-> "ListUnits", datetime |-> 0, in |-> rsp]
        /\ ret' = listUnits(rsp, ord)
        /\ UNCHANGED <<co, client, heap, procs, file, cli>>

ListRoutes ==
    /\ call = NoCall
    /\ \E rsp \in Responses(RouteData, RichRoutes) :
        /\ call' = [op |-> "ListRoutes", datetime |-> 0, in |-> rsp]
        /\ ret' = listRoutes(rsp)
        /\ UNCHANGED <<co, client, heap, procs, file, cli>>

ListIgnitions ==
    /\ call = NoCall
    /\ \E rsp \in Responses(IgnitionData, RichIgnitions) :
        /\ call' = [op |-> "ListIgnitions", datetime |-> 0, in |-> rsp]
        /\ ret' = listIgnitions(rsp)
        /\ UNCHANGED <<co, client, heap, procs, file, cli>>

ListHumidity ==
    /\ call = NoCall
    /\ \E rsp \in Responses(HumidityData, RichHumidity) :
        /\ call' = [op |-> "ListHumidity", datetime |-> 0, in |-> rsp]
        /\ ret' = listHumidity(rsp)
        /\ UNCHANGED <<co, client, heap, procs, file, cli>>

ListDrivers ==
    /\ call = NoCall
    /\ \E rsp \in Responses(DriverData, RichDrivers) :
        /\ call' = [op |-> "ListDrivers", datetime |-> 0, in |-> rsp]
        /\ ret' = listDrivers(rsp)
        /\ UNCHANGED <<co, client, heap, procs, file, cli>>

ListCanPeriodData ==
    /\ call = NoCall
    /\ \E rsp \in Responses(CanPeriodData, RichCanPeriod) :
        /\ call' = [op |-> "ListCanPeriodData", datetime |-> 0, in |-> rsp]
        /\ ret' = listCanPeriodData(rsp)
        /\ UNCHANGED <<co, client, heap, procs, file, cli>>

GetCanDataPoint ==
    /\ call = NoCall
    /\ \E rsp \in Responses(CanPointData, RichCanPoint), datetime \in Datetimes :
        /\ call' = [op |-> "GetCanDataPoint", datetime |-> datetime, in |-> rsp]
        /\ ret' = getCanDataPoint(datetime, rsp)
        /\ UNCHANGED <<co, client, heap, procs, file, cli>>

GetUnitFields ==
    /\ call = NoCall
    /\ \E rsp \in Responses(UnitFieldsData, RichUnitFields) :
       \E ord \in RangeOrders(fieldKeys(rsp.body.data)) :
        /\ call' = [op |-> "GetUnitFields", datetime |-> 0, in |-> rsp]
        /\ ret' = getUnitFields(rsp, ord)
        /\ UNCHANGED <<co, client, heap, procs, file, cli>>

GetDrivingTimeExtended ==
    /\ call = NoCall
    /\ \E rsp \in ResponsesWith(DrivingTimeData, RichDrivingTime, NoDrivers) :
       \E ord \in RangeOrders(IF rsp.body.decodes THEN DOMAIN rsp.body.data.entries ELSE {}) :
        /\ call' = [op |-> "GetDrivingTimeExtended", datetime |-> 0, in |-> rsp]
        /\ ret' = getDrivingTimeExtended(rsp, ord)
        /\ UNCHANGED <<co, client, heap, procs, file, cli>>

ListTellTaleValues ==
    /\ call = NoCall
    /\ \E unitID \in RequestUnitIDs :
       \E rsp \in ResponsesWith(TellTaleData, RichTellTales, NoTellTales) :
        /\ call' = [op |-> "ListTellTaleValues", datetime |-> 0, in |-> rsp,
                    unit_id |-> unitID]
        /\ ret' = listTellTaleValues(unitID, rsp)
        /\ UNCHANGED <<co, client, heap, procs, file, cli>>

ListAlerts ==
    /\ call = NoCall
    /\ \E rsp \in Responses(AlertData, RichAlerts) :
        /\ call' = [op |-> "ListAlerts", datetime |-> 0, in |-> rsp]
        /\ ret' = listAlerts(rsp)
        /\ UNCHANGED <<co, client, heap, procs, file, cli>>

ListUnitsInGroup ==
    /\ call = NoCall
    /\ \E rsp \in Responses(GroupUnitData, RichGroupUnits) :
        /\ call' = [op |-> "ListUnitsInGroup", datetime |-> 0, in |-> rsp]
        /\ ret' = listUnitsInGroup(rsp)
        /\ UNCHANGED <<co, client, heap, procs, file, cli>>

\* The function has returned; the caller goes on.
Return ==
    /\ call # NoCall
    /\ call' = NoCall
    /\ ret' = NoResult
    /\ UNCHANGED <<co, client, heap, procs, file, cli>>

Next ==
    \/ ParseUnitsResponse
    \/ ListUnits
    \/ ListRoutes
    \/ ListIgnitions
    \/ ListHumidity
    \/ ListDrivers
    \/ ListCanPeriodData
    \/ GetCanDataPoint
    \/ GetUnitFields
    \/ GetDrivingTimeExtended
    \/ ListTellTaleValues
    \/ ListAlerts
    \/ ListUnitsInGroup
    \/ Return

Spec == Init /\ [][Next]_vars

(***************************************************************************)
(* Properties of a call and its result.                                    *)
(***************************************************************************)
IsEndpointCall == call.op \notin {"none", "ParseUnitsResponse"}

\* The body the call decodes.
EnvelopeOf == IF call.op = "ParseUnitsResponse" THEN call.in ELSE call.in.body

GotOK ==
    /\ IsEndpointCall
    /\ call.in.built = "ok"
    /\ call.in.transportOK /\ call.in.status = 200 /\ call.in.readOK

EnvelopeDecoded == (call.op = "ParseUnitsResponse" \/ GotOK) /\ EnvelopeOf.decodes

\* The call got as far as mapping the data member.
MappingRan == EnvelopeDecoded /\ EnvelopeOf.error = None

DataOf == EnvelopeOf.data

\* The data member is decoded as an array of records (GetDrivingTimeExtended
\* keeps it raw and decodes an object in a second stage; ListTellTaleValues
\* decodes an object keyed by unit ID).
DataIsArray == call.op \notin {"GetDrivingTimeExtended", "ListTellTaleValues"}

\* C1: in every endpoint function and in ParseUnitsResponse, a decoded
\* envelope whose error member is present makes the call return an error
\* carrying the vendor's code and message and no records, whatever data holds.
C1_ErrorMemberYieldsErrorOnly ==
    (EnvelopeDecoded /\ IsSome(EnvelopeOf.error)) =>
        /\ ret.resp = None
        /\ IsSome(ret.err)
        /\ Get(ret.err).kind = "api"
        /\ Get(ret.err).code = Get(EnvelopeOf.error).code
        /\ Get(ret.err).msg = Get(EnvelopeOf.error).msg

\* ListUnits got an error member next to a well-formed unit and returned
\* the error only.
C1_Witness ==
    /\ call.op = "ListUnits"
    /\ EnvelopeDecoded
    /\ EnvelopeOf.error = Some(jsonError(7, "invalid key"))
    /\ DataOf = RichUnits
    /\ ret.resp = None
    /\ Get(ret.err).code = 7

\* C2: in every endpoint function, an HTTP status other than 200 makes the
\* call fail with the status error; the body is not decoded, even when it is
\* a well-formed success envelope, and no record is returned.
C2_Non200FailsUndecoded ==
    (IsEndpointCall /\ call.in.built = "ok" /\ call.in.transportOK /\ call.in.status # 200) =>
        /\ ret.resp = None
        /\ IsSome(ret.err)
        /\ Get(ret.err).kind = "status"
        /\ Get(ret.err).code = call.in.status
        /\ ~ret.decoded

\* ListIgnitions got 204 with a well-formed success envelope and failed
\* without decoding it.
C2_Witness ==
    /\ call.op = "ListIgnitions"
    /\ call.in.transportOK
    /\ call.in.status = 204
    /\ call.in.body = Body(None, RichIgnitions)
    /\ ret.resp = None
    /\ Get(ret.err).kind = "status"
    /\ ~ret.decoded

IsUnitCall == call.op \in {"ListUnits", "ParseUnitsResponse"}

\* The units mapped by the call, paired by position: <<jsonUnit, Unit>>.
UnitPairs ==
    IF IsUnitCall /\ MappingRan /\ IsSome(ret.resp)
       /\ Len(Get(ret.resp)) = Len(DataOf)
    THEN {<<DataOf[i], Get(ret.resp)[i]>> : i \in DOMAIN DataOf}
    ELSE {}

\* The routes of a ListRoutes response in the order of the document.
RoutesOf(units) == Flatten([i \in DOMAIN units |-> units[i].routes])

\* The routes mapped by the call, paired by position: <<jsonRoute, Route>>.
RoutePairs ==
    IF call.op = "ListRoutes" /\ MappingRan /\ IsSome(ret.resp)
       /\ Len(Get(ret.resp)) = Len(RoutesOf(DataOf))
    THEN {<<RoutesOf(DataOf)[i], Get(ret.resp)[i]>> : i \in DOMAIN RoutesOf(DataOf)}
    ELSE {}

\* C3: for every mapped enum field (unit type, fuel type, movement status,
\* route type), a non-empty input string outside the field's known set (known
\* codes in any case for unit type, movement status and route type; the
\* upper-case codes as spelled for fuel type) gives the enum UNRECOGNIZED and
\* a raw field equal to the input.  (The empty string is the matter of C4.)
C3_UnknownStringIsUnrecognizedWithRaw ==
    /\ \A p \in UnitPairs :
        /\ (IsSome(p[1].type) /\ Get(p[1].type) # <<>>
              /\ ToLower(Get(p[1].type)) \notin DOMAIN UnitTypeCodes)
           => (p[2].type = Some("UNIT_TYPE_UNRECOGNIZED")
                 /\ p[2].unrecognized_type = p[1].type)
        /\ (IsSome(p[1].fuel_type) /\ Get(p[1].fuel_type) # <<>>
              /\ Get(p[1].fuel_type) \notin DOMAIN FuelTypeCodes)
           => (p[2].fuel_type = Some("FUEL_TYPE_UNRECOGNIZED")
                 /\ p[2].unrecognized_fuel_type = p[1].fuel_type)
        /\ (p[1].state.name # <<>>
              /\ ToLower(p[1].state.name) \notin DOMAIN MovementStatusCodes)
           => (p[2].state.movement_status = Some("MOVEMENT_STATUS_UNRECOGNIZED")
                 /\ p[2].state.unrecognized_movement_status = Some(p[1].state.name))
    /\ \A p \in RoutePairs :
        (p[1].type # <<>> /\ ToLower(p[1].type) \notin DOMAIN RouteTypeCodes)
        => (p[2].type = Some("ROUTE_TYPE_UNRECOGNIZED")
              /\ p[2].unrecognized_type = Some(p[1].type))

\* C4: for every mapped enum field, an empty or absent source string leaves
\* the enum field unset, not set to any member.
C4_EmptySourceLeavesEnumUnset ==
    /\ \A p \in UnitPairs :
        /\ (p[1].type = None \/ p[1].type = Some(<<>>)) => p[2].type = None
        /\ (p[1].fuel_type = None \/ p[1].fuel_type = Some(<<>>)) => p[2].fuel_type = None
        /\ p[1].state.name = <<>> => p[2].state.movement_status = None
    /\ \A p \in RoutePairs :
        p[1].type = <<>> => p[2].type = None

\* The value/timestamp pairs of a UnitState, apart from the axle weights.
StatePairs(st) ==
    <<  <<st.supply_voltage_v, st.supply_voltage_time>>,
        <<st.battery_voltage_v, st.battery_voltage_time>>,
        <<st.ignition_state, st.ignition_time>>,
        <<st.ambient_temperature_c, st.ambient_temperature_time>>,
        <<st.can_odometer_m, st.can_odometer_time>>,
        <<st.total_fuel_used_lifetime_l, st.can_fuel_total_time>>,
        <<st.can_engine_rpm, st.can_engine_rpm_time>>,
        <<st.can_fuel_level_l, st.can_fuel_level_time>>,
        <<st.can_engine_hours_h, st.can_engine_hours_time>>,
        <<st.can_service_brake_switch, st.can_service_brake_switch_time>>,
        <<st.can_parking_brake_switch, st.can_parking_brake_switch_time>>,
        <<st.can_engine_load_percent, st.can_engine_load_time>>,
        <<st.gross_combination_weight_kg, st.combination_weight_time>>,
        <<st.powered_weight_kg, st.powered_weight_time>>,
        <<st.battery_soc_percent, st.battery_soc_percent_time>>,
        <<st.battery_soc_kwh, st.battery_soc_kwh_time>>,
        <<st.charging_state, st.ev_charging_time>>,
        <<st.ev_charger_connected, st.ev_charger_connected_time>>,
        <<st.altitude_m, st.altitude_time>>  >>

\* C5: in every UnitState of the unit mapper, each value/timestamp pair is
\* either both present or both absent.
C5_ValueAndTimeTogether ==
    \A p \in UnitPairs :
        /\ \A k \in DOMAIN StatePairs(p[2].state) :
            IsSome(StatePairs(p[2].state)[k][1]) <=> IsSome(StatePairs(p[2].state)[k][2])
        /\ \A a \in p[2].state.axis_weights :
            IsSome(a[2].weight_kg) <=> IsSome(a[2].time)

\* The optional string fields of a Unit whose content is plain text.
OptionalStringFields(u) ==
    [f \in OptionalStringMembers |-> u[f]]
    @@ [debug_message |-> u.state.debug_message,
        sim |-> Member(u.device, "sim"),
        measurement |-> Member(u.avg_fuel_consumption, "measurement"),
        movement_state_name |-> Member(u.movement_state, "name"),
        connected_unit_id |-> Member(u.connected, "unit_id"),
        connected_type |-> Member(u.connected, "type"),
        stage_classification |-> Member(u.technical_details, "stage_classification"),
        emission_class |-> Member(u.technical_details, "emission_class"),
        make_year |-> Member(u.technical_details, "make_year"),
        make_month |-> Member(u.technical_details, "make_month"),
        refrigerator_type |-> Member(u.reefer, "refrigerator_type"),
        refrigerator_communication_type |->
            Member(u.reefer, "refrigerator_communication_type")]

\* C6: no optional string field of the unit mapper's output, nested
\* sub-records included, is present holding the empty string.
C6_NoPresentEmptyString ==
    \A p \in UnitPairs :
        /\ \A f \in DOMAIN OptionalStringFields(p[2]) :
            OptionalStringFields(p[2])[f] # Some("")
        /\ Member(p[2].device, "imei") # Some(<<>>)
        /\ \A k \in DOMAIN p[2].state.fuel_entries :
            /\ p[2].state.fuel_entries[k].type # Some("")
            /\ p[2].state.fuel_entries[k].metrics # Some("")

(***************************************************************************)
(* The coercions on their own: one number literal is sent to one flexible  *)
(* member once as a JSON number and once as a JSON string, and the mapper  *)
(* of the member's record runs on both documents.                          *)
(***************************************************************************)
UnitFlexMembers ==
    CanMembers \cup WeightMembers \cup EvMembers
        \cup {"axis", "altitude", "adblue_level_fraction"}

CanPeriodFlexMembers == CanPeriodMetrics \cup CanPeriodEvMetrics \cup {"weight_on_axis"}

\* BaseUnit with the flexible member f holding v.
UnitWith(f, v) ==
    LET x == Some([gmt |-> GoodTime, value |-> v])
    IN  CASE f \in CanMembers -> [BaseUnit EXCEPT !.can = Some([NoCan EXCEPT ![f] = x])]
          [] f \in WeightMembers ->
                [BaseUnit EXCEPT !.weights = Some([NoWeights EXCEPT ![f] = x])]
          [] f \in EvMembers -> [BaseUnit EXCEPT !.ev_values = Some([NoEv EXCEPT ![f] = x])]
          [] f = "axis" ->
                [BaseUnit EXCEPT !.weights =
                    Some([NoWeights EXCEPT !.axis = [k \in {<<"1">>} |-> Get(x)]])]
          [] f = "altitude" -> [BaseUnit EXCEPT !.altitude = x]
          [] OTHER -> [BaseUnit EXCEPT !.adblue_level_fraction = v]

CanPeriodUnitWith(f, v) ==
    CASE f \in CanPeriodMetrics ->
            [BaseCanPeriodUnit EXCEPT ![f] = <<jsonCanValue(GoodLocalTime, v)>>]
      [] f \in CanPeriodEvMetrics ->
            [BaseCanPeriodUnit EXCEPT !.ev_values =
                Some([NoEvValues EXCEPT ![f] = <<jsonCanValue(GoodLocalTime, v)>>])]
      [] OTHER ->
            [BaseCanPeriodUnit EXCEPT !.weight_on_axis = <<jsonAxisWeight(GoodLocalTime, v)>>]

CanPointUnitWith(f, v) == [BaseCanPointUnit EXCEPT ![f] = jsonCanValue(GoodLocalTime, v)]

Coercion(op, member, literal) ==
    [op |-> op, member |-> member, literal |-> literal, applied |-> FALSE,
     asNumber |-> None, asString |-> None]

CoercionInputs ==
    {Coercion("unit", f, s) : f \in UnitFlexMembers, s \in JSONNumberLiterals}
    \cup {Coercion("can period", f, s) : f \in CanPeriodFlexMembers, s \in JSONNumberLiterals}
    \cup {Coercion("can point", f, s) : f \in CanPointMetrics, s \in JSONNumberLiterals}

InitCoerce ==
    /\ call = NoCall
    /\ ret = NoResult
    /\ co \in CoercionInputs
    /\ NoSharing

CoerceUnitMember ==
    /\ co.op = "unit" /\ ~co.applied
    /\ \E ord \in RangeOrders(dynamicKeys(UnitWith(co.member, JStr(co.literal)))) :
        co' = [co EXCEPT
                !.applied = TRUE,
                !.asNumber =
                    Some(mapJSONUnitToProto(UnitWith(co.member, DecodeNumber(co.literal)), ord)),
                !.asString =
                    Some(mapJSONUnitToProto(UnitWith(co.member, JStr(co.literal)), ord))]
    /\ UNCHANGED <<call, ret, client, heap, procs, file, cli>>

CoerceCanPeriodMember ==
    /\ co.op = "can period" /\ ~co.applied
    /\ co' = [co EXCEPT
                !.applied = TRUE,
                !.asNumber = Some(mapUnitCanPeriodData(
                                    CanPeriodUnitWith(co.member, DecodeNumber(co.literal)))),
                !.asString = Some(mapUnitCanPeriodData(
                                    CanPeriodUnitWith(co.member, JStr(co.literal))))]
    /\ UNCHANGED <<call, ret, client, heap, procs, file, cli>>

CoerceCanPointMember ==
    /\ co.op = "can point" /\ ~co.applied
    /\ co' = [co EXCEPT
                !.applied = TRUE,
                !.asNumber = Some(mapCanDataPoint(34,
                                    CanPointUnitWith(co.member, DecodeNumber(co.literal)))),
                !.asString = Some(mapCanDataPoint(34,
                                    CanPointUnitWith(co.member, JStr(co.literal))))]
    /\ UNCHANGED <<call, ret, client, heap, procs, file, cli>>

NextCoerce ==
    \/ CoerceUnitMember
    \/ CoerceCanPeriodMember
    \/ CoerceCanPointMember

SpecCoerce == InitCoerce /\ [][NextCoerce]_vars

\* C7: for every flexible numeric member, of the unit mapper (parseFloat),
\* of the CAN-period mapper (the inline conversion of mapCanMetricList and
\* mapAxisWeightList) and of the CAN-point mapper (parseCanFloat), a number
\* sent as a JSON string and the same number sent as a JSON number map to
\* the same output.
C7_StringAndNumberAgree ==
    co.applied => co.asNumber = co.asString

\* "5.5" and 5.5 both became an altitude of 5.5.
C7_Witness ==
    /\ co.applied
    /\ co.op = "unit"
    /\ co.member = "altitude"
    /\ co.literal = <<"5", ".", "5">>
    /\ Get(co.asString).state.altitude_m = Some([m |-> 55, e |-> 1])
    /\ Get(co.asNumber).state.altitude_m = Some([m |-> 55, e |-> 1])

(***************************************************************************)
(* Where the unit mapper stores each flexible member of can, weights and   *)
(* ev_values.                                                              *)
(***************************************************************************)
FlexTimeField ==
    [odom |-> "can_odometer_time",
     fuel_total |-> "can_fuel_total_time",
     engine_rpm_avg |-> "can_engine_rpm_time",
     can_fuel |-> "can_fuel_level_time",
     engine_hours |-> "can_engine_hours_time",
     service_brake_switch |-> "can_service_brake_switch_time",
     parking_brake_switch |-> "can_parking_brake_switch_time",
     engine_load |-> "can_engine_load_time",
     combination_weight |-> "combination_weight_time",
     powered_weight |-> "powered_weight_time",
     can_ev_battery_rel |-> "battery_soc_percent_time",
     can_ev_battery_abs |-> "battery_soc_kwh_time",
     ev_charging |-> "ev_charging_time",
     ev_charger_connected |-> "ev_charger_connected_time"]

FlexValueField ==
    [fuel_total |-> "total_fuel_used_lifetime_l",
     engine_rpm_avg |-> "can_engine_rpm",
     can_fuel |-> "can_fuel_level_l",
     engine_hours |-> "can_engine_hours_h",
     engine_load |-> "can_engine_load_percent",
     combination_weight |-> "gross_combination_weight_kg",
     powered_weight |-> "powered_weight_kg",
     can_ev_battery_rel |-> "battery_soc_percent",
     can_ev_battery_abs |-> "battery_soc_kwh"]

FlexFlagField ==
    [service_brake_switch |-> "can_service_brake_switch",
     parking_brake_switch |-> "can_parking_brake_switch",
     ev_charging |-> "charging_state",
     ev_charger_connected |-> "ev_charger_connected"]

TypedTimeField ==
    [supply_voltage |-> "supply_voltage_time",
     battery_voltage |-> "battery_voltage_time",
     ambienttemp |-> "ambient_temperature_time",
     ignition |-> "ignition_time"]

\* The member f of can, weights or ev_values of a jsonUnit, or nil.
FlexMember(j, f) ==
    CASE f \in CanMembers -> Member(j.can, f)
      [] f \in WeightMembers -> Member(j.weights, f)
      [] OTHER -> Member(j.ev_values, f)

\* A decoded value that is not a number and does not parse as one.
Unparseable(v) ==
    \/ v.t \in {"bool", "arr", "obj"}
    \/ v.t = "str" /\ ~ParseFloat(v.s).ok

UnparseableMember(o) == IsSome(o) /\ Unparseable(Get(o).value)

\* The units of a CAN response paired with their outputs by position.
CanPairs(op) ==
    IF call.op = op /\ MappingRan /\ IsSome(ret.resp)
       /\ Len(Get(ret.resp)) = Len(DataOf)
    THEN {<<DataOf[i], Get(ret.resp)[i]>> : i \in DOMAIN DataOf}
    ELSE {}

\* The metric lists of a CAN-period unit paired with their outputs.
CanPeriodLists(p) ==
    [rpm_average |-> <<p[1].rpm_average, p[2].rpm_average>>,
     rpm_max |-> <<p[1].rpm_max, p[2].rpm_max>>,
     fuel_level |-> <<p[1].fuel_level, p[2].fuel_level_percent>>,
     service_distance |-> <<p[1].service_distance, p[2].service_distance_km>>,
     total_distance |-> <<p[1].total_distance, p[2].total_distance_km>>,
     total_fuel |-> <<p[1].total_fuel, p[2].total_fuel_l>>,
     total_engine_hours |-> <<p[1].total_engine_hours, p[2].total_engine_hours>>,
     ambient_temperature |-> <<p[1].ambient_temperature, p[2].ambient_temperature_c>>,
     weight_on_chassis_total |->
        <<p[1].weight_on_chassis_total, p[2].weight_on_chassis_total_kg>>,
     can_ev_battery_rel |->
        <<IF IsSome(p[1].ev_values) THEN Get(p[1].ev_values).can_ev_battery_rel ELSE <<>>,
          p[2].ev_battery_rel_percent>>,
     can_ev_battery_abs |->
        <<IF IsSome(p[1].ev_values) THEN Get(p[1].ev_values).can_ev_battery_abs ELSE <<>>,
          p[2].ev_battery_abs_kwh>>,
     ev_charging |->
        <<IF IsSome(p[1].ev_values) THEN Get(p[1].ev_values).ev_charging ELSE <<>>,
          p[2].ev_charging>>]

CanPointValueField ==
    [fuel_level |-> "fuel_level_percent", total_fuel |-> "total_fuel_l",
     total_engine_hours |-> "total_engine_hours",
     ambient_temperature |-> "ambient_temperature_c"]

CanPointIntField ==
    [rpm_average |-> "rpm_average", rpm_max |-> "rpm_max",
     total_distance |-> "total_distance_km"]

\* C8: a flexible numeric member whose value cannot be parsed as a number
\* (a non-numeric string, a boolean, an array, an object) is mapped to 0
\* (false for the members stored as flags), and the call succeeds with one
\* output record per input record and the member's time still mapped.
C8_UnparseableNumberIsZero ==
    /\ (MappingRan /\ DataIsArray /\ call.op # "ListRoutes") =>
          (ret.err = None /\ IsSome(ret.resp) /\ Len(Get(ret.resp)) = Len(DataOf))
    /\ \A p \in UnitPairs :
        /\ \A f \in DOMAIN FlexValueField :
            UnparseableMember(FlexMember(p[1], f)) =>
                /\ p[2].state[FlexValueField[f]] = Some(Zero)
                /\ TimeParse(RFC3339, Get(FlexMember(p[1], f)).gmt).ok =>
                        IsSome(p[2].state[FlexTimeField[f]])
        /\ \A f \in DOMAIN FlexFlagField :
            UnparseableMember(FlexMember(p[1], f)) =>
                /\ p[2].state[FlexFlagField[f]] = Some(FALSE)
                /\ TimeParse(RFC3339, Get(FlexMember(p[1], f)).gmt).ok =>
                        IsSome(p[2].state[FlexTimeField[f]])
        /\ UnparseableMember(p[1].altitude) => p[2].state.altitude_m = Some(Zero)
        /\ Unparseable(p[1].adblue_level_fraction) =>
                p[2].state.adblue_level_fraction = Some(Zero)
        /\ IsSome(p[1].weights) =>
             \A k \in DOMAIN Get(p[1].weights).axis :
                (ParseInt32(k).ok /\ Unparseable(Get(p[1].weights).axis[k].value)) =>
                    \E a \in p[2].state.axis_weights :
                        a[1] = ParseInt32(k).v /\ a[2].weight_kg = Some(Zero)
        /\ p[2].unit_id = p[1].unit_id
        /\ p[2].company_id = p[1].company_id
    /\ \A p \in CanPairs("ListCanPeriodData") :
        /\ \A f \in DOMAIN CanPeriodLists(p) :
            LET in == CanPeriodLists(p)[f][1]
                out == CanPeriodLists(p)[f][2]
            IN  /\ Len(out) = Len(in)
                /\ \A k \in DOMAIN in :
                    Unparseable(in[k].value) =>
                        /\ out[k].value = Zero
                        /\ TimeParse(LocalLayout, in[k].gmt).ok => IsSome(out[k].time)
        /\ Len(p[2].weight_on_axis) = Len(p[1].weight_on_axis)
        /\ \A k \in DOMAIN p[1].weight_on_axis :
            Unparseable(p[1].weight_on_axis[k].value) =>
                /\ p[2].weight_on_axis[k].value_kg = Zero
                /\ p[2].weight_on_axis[k].axis_id = p[1].weight_on_axis[k].axis
    /\ \A p \in CanPairs("GetCanDataPoint") :
        /\ \A f \in DOMAIN CanPointValueField :
            Unparseable(p[1][f].value) => p[2][CanPointValueField[f]] = Zero
        /\ \A f \in DOMAIN CanPointIntField :
            Unparseable(p[1][f].value) => p[2][CanPointIntField[f]] = 0
        /\ p[2].time = call.datetime

\* A unit whose can.engine_rpm_avg value is the string "x" was mapped to an
\* engine speed of 0 with its time, and the call succeeded.
C8_Witness ==
    /\ IsUnitCall
    /\ \E p \in UnitPairs :
        /\ IsSome(p[1].can)
        /\ Get(p[1].can).engine_rpm_avg = Some([gmt |-> GoodTime, value |-> JStr(<<"x">>)])
        /\ p[2].state.can_engine_rpm = Some(Zero)
        /\ p[2].state.can_engine_rpm_time = Some(34)
    /\ ret.err = None

(***************************************************************************)
(* The timestamps of a call: <<layout, source string, destination>>.       *)
(***************************************************************************)
UnitTimes(j, u) ==
    {<<RFC3339, j.created_at, u.created_at>>,
     <<RFC3339, j.state.start, u.state.start_time>>,
     <<RFC3339, j.last_update, u.state.time>>}
    \cup {<<RFC3339, Get(j.fuel[k].last_update), u.state.fuel_entries[k].last_update>> :
            k \in {i \in DOMAIN j.fuel : IsSome(j.fuel[i].last_update)}}
    \cup {<<RFC3339, Get(j[f]).gmt, u.state[TypedTimeField[f]]>> :
            f \in {g \in DOMAIN TypedTimeField : IsSome(j[g])}}
    \cup {<<RFC3339, Get(FlexMember(j, f)).gmt, u.state[FlexTimeField[f]]>> :
            f \in {g \in DOMAIN FlexTimeField : IsSome(FlexMember(j, g))}}
    \cup (IF IsSome(j.altitude)
          THEN {<<RFC3339, Get(j.altitude).gmt, u.state.altitude_time>>} ELSE {})
    \cup (IF IsSome(j.weights)
          THEN UNION {{<<RFC3339, Get(j.weights).axis[k].gmt, a[2].time>> :
                         a \in {b \in u.state.axis_weights : b[1] = ParseInt32(k).v}} :
                      k \in {x \in DOMAIN Get(j.weights).axis : ParseInt32(x).ok}}
          ELSE {})
    \cup (IF IsSome(j.movement_state) /\ IsSome(u.movement_state)
          THEN {<<RFC3339, Get(j.movement_state).start, Get(u.movement_state).start>>}
          ELSE {})
    \cup {<<LocalLayout, j.saved_values[k].gmt, u.saved_values[k].gmt>> :
            k \in DOMAIN j.saved_values}
    \cup {<<RFC3339, j.drivers[k].created_at, u.drivers[k].created_at>> :
            k \in DOMAIN j.drivers}

CallTimes ==
    UNION {UnitTimes(p[1], p[2]) : p \in UnitPairs}
    \cup UNION {{<<RFC3339, p[1].start.time, p[2].start.time>>,
                 <<RFC3339, p[1].end.time, p[2].end.time>>} : p \in RoutePairs}
    \cup UNION {{<<LocalLayout, p[1].ignitions[k].on, p[2].ignitions[k].on_time>> :
                    k \in DOMAIN p[1].ignitions}
                \cup {<<LocalLayout, p[1].ignitions[k].off, p[2].ignitions[k].off_time>> :
                        k \in DOMAIN p[1].ignitions} : p \in CanPairs("ListIgnitions")}
    \cup UNION {UNION {{<<LocalLayout, p[1].sensors[i].humidities[k].gmt,
                          p[2].sensors[i].humidities[k].time>> :
                            k \in DOMAIN p[1].sensors[i].humidities} :
                        i \in DOMAIN p[1].sensors} : p \in CanPairs("ListHumidity")}
    \cup {<<LocalLayout, p[1].created, p[2].created_at>> : p \in CanPairs("ListDrivers")}
    \cup UNION {UNION {{<<LocalLayout, CanPeriodLists(p)[f][1][k].gmt,
                          CanPeriodLists(p)[f][2][k].time>> :
                            k \in DOMAIN CanPeriodLists(p)[f][1]} :
                        f \in DOMAIN CanPeriodLists(p)} : p \in CanPairs("ListCanPeriodData")}
    \cup UNION {{<<LocalLayout, p[1].weight_on_axis[k].gmt, p[2].weight_on_axis[k].time>> :
                    k \in DOMAIN p[1].weight_on_axis} : p \in CanPairs("ListCanPeriodData")}

\* C9: a timestamp string that does not parse in its field's format leaves
\* the destination unset, and the call still succeeds with its records
\* mapped.
C9_BadTimestampIsUnset ==
    /\ (MappingRan /\ DataIsArray) => (ret.err = None /\ IsSome(ret.resp))
    /\ (MappingRan /\ DataIsArray /\ call.op # "ListRoutes") =>
            Len(Get(ret.resp)) = Len(DataOf)
    /\ (MappingRan /\ call.op = "ListRoutes") =>
            Len(Get(ret.resp)) = Len(RoutesOf(DataOf))
    /\ \A t \in CallTimes : ~TimeParse(t[1], t[2]).ok => t[3] = None

\* ListIgnitions mapped an event whose "on" is junk: the on time is unset,
\* the off time is mapped, and the call succeeded.
C9_Witness ==
    /\ call.op = "ListIgnitions"
    /\ ret.err = None
    /\ \E p \in CanPairs("ListIgnitions") :
        \E k \in DOMAIN p[1].ignitions :
            /\ p[1].ignitions[k] = jsonIgnition(<<"junk">>, GoodLocalTime)
            /\ p[2].ignitions[k].on_time = None
            /\ p[2].ignitions[k].off_time = Some(34)

(***************************************************************************)
(* Lists.                                                                  *)
(***************************************************************************)
\* out is in mapped element by element, in order.
ElementWise(out, in, f(_)) ==
    /\ Len(out) = Len(in)
    /\ \A i \in DOMAIN in : out[i] = f(in[i])

\* The number of routes of the units before the i-th.
RoutesBefore(units, i) == Len(RoutesOf(SubSeq(units, 1, i - 1)))

ObjectsOf(j) == IF IsSome(j.in_objects) THEN Get(j.in_objects).objects ELSE <<>>

\* C10: every list endpoint whose data member is an array of records returns
\* one output per input element, the i-th mapped from the i-th, and the same
\* holds of every list nested in a record (a unit's fuel entries, saved
\* values, drivers, relays and objects; ignition events; humidity sensors and
\* their records; CAN metric values and axle weights).  ListRoutes returns
\* one flat list instead: the routes of the first unit in order, then those
\* of the second, and so on, so its length is the total number of routes and
\* not the number of elements of the units array.  Nothing is reordered,
\* dropped or deduplicated.
C10_ListsMapInOrder ==
    (MappingRan /\ DataIsArray) =>
        /\ IsSome(ret.resp)
        /\ call.op = "GetUnitFields" =>
            /\ Len(Get(ret.resp)) = Len(DataOf)
            /\ \A i \in DOMAIN DataOf : Get(ret.resp)[i].unit_id = DataOf[i].unit_id
        /\ IsUnitCall =>
            /\ \E ord \in RangeOrders(unitsKeys(DataOf)) :
                    Get(ret.resp) = mapUnits(DataOf, ord)
            /\ \A p \in UnitPairs :
                /\ ElementWise(p[2].state.fuel_entries, p[1].fuel, mapFuelEntry)
                /\ ElementWise(p[2].saved_values, p[1].saved_values, mapSavedValue)
                /\ ElementWise(p[2].drivers, p[1].drivers, mapUnitDriver)
                /\ ElementWise(p[2].relays, p[1].relays, mapRelay)
                /\ ElementWise(p[2].in_objects, ObjectsOf(p[1]), mapObjectLocation)
        /\ call.op = "ListIgnitions" =>
            /\ Len(Get(ret.resp)) = Len(DataOf)
            /\ \A p \in CanPairs("ListIgnitions") :
                /\ p[2].unit_id = p[1].unit_id
                /\ ElementWise(p[2].ignitions, p[1].ignitions, mapIgnitionEvent)
        /\ call.op = "ListHumidity" =>
            /\ Len(Get(ret.resp)) = Len(DataOf)
            /\ \A p \in CanPairs("ListHumidity") :
                /\ p[2].unit_id = p[1].unit_id
                /\ Len(p[2].sensors) = Len(p[1].sensors)
                /\ \A k \in DOMAIN p[1].sensors :
                    /\ p[2].sensors[k].number = p[1].sensors[k].no
                    /\ ElementWise(p[2].sensors[k].humidities,
                                   p[1].sensors[k].humidities, mapHumidityRecord)
        /\ call.op = "ListDrivers" =>
            ElementWise(Get(ret.resp), DataOf, mapJSONDriverToProto)
        /\ call.op = "ListCanPeriodData" =>
            /\ Len(Get(ret.resp)) = Len(DataOf)
            /\ \A p \in CanPairs("ListCanPeriodData") :
                /\ p[2].unit_id = p[1].unit_id
                /\ \A f \in DOMAIN CanPeriodLists(p) :
                    ElementWise(CanPeriodLists(p)[f][2], CanPeriodLists(p)[f][1], mapCanMetric)
                /\ ElementWise(p[2].weight_on_axis, p[1].weight_on_axis, mapAxisWeight)
        /\ call.op = "GetCanDataPoint" =>
            /\ Len(Get(ret.resp)) = Len(DataOf)
            /\ \A p \in CanPairs("GetCanDataPoint") :
                ElementWise(p[2].axis_weights, p[1].weight_on_axis, mapCanPointAxisWeight)
        /\ call.op = "ListRoutes" =>
            /\ Len(Get(ret.resp)) = Len(RoutesOf(DataOf))
            /\ \A i \in DOMAIN DataOf :
                \A k \in DOMAIN DataOf[i].routes :
                    Get(ret.resp)[RoutesBefore(DataOf, i) + k]
                        = mapJSONRouteToProto(DataOf[i].unit_id, DataOf[i].routes[k])

\* ListRoutes got one unit with two different routes and returned the two
\* routes in the order of the document.
C10_Witness ==
    /\ call.op = "ListRoutes"
    /\ MappingRan
    /\ Len(DataOf) = 1
    /\ Len(DataOf[1].routes) = 2
    /\ DataOf[1].routes[1].route_id = 2
    /\ DataOf[1].routes[2].route_id = 1
    /\ Len(Get(ret.resp)) = 2
    /\ Get(ret.resp)[1].route_id = 2
    /\ Get(ret.resp)[2].route_id = 1

\* C10 as stated: every list endpoint, ListRoutes included, returns a list of
\* the length of the array in its data member.
C10_OutputAsLongAsInputArray ==
    (MappingRan /\ DataIsArray /\ IsSome(ret.resp)) => Len(Get(ret.resp)) = Len(DataOf)

(***************************************************************************)
(* The same document decoded and mapped twice.  One document is given; it  *)
(* is mapped in two executions, each with the range order the runtime      *)
(* happens to use for its maps, and co keeps both results.                 *)
(***************************************************************************)
\* Units whose dynamic maps hold two keys with one index.
CollidingAxis ==
    [k \in {<<"1">>, <<"0", "1">>} |->
        [gmt |-> GoodTime,
         value |-> IF k = <<"1">> THEN DecodeNumber(<<"5">>) ELSE DecodeNumber(<<"5", "0">>)]]

CollidingFuelTank ==
    [k \in {<<"fuel_tank_vol_", "0">>, <<"fuel_tank_vol_", "0", "0">>} |->
        IF k = <<"fuel_tank_vol_", "0">> THEN DecodeNumber(<<"5">>) ELSE DecodeNumber(<<"5", "0">>)]

RerunUnits ==
    {BaseUnit, BareUnit,
     [BaseUnit EXCEPT !.weights = Some([NoWeights EXCEPT !.axis = CollidingAxis])],
     [BaseUnit EXCEPT !.fuel_tank = Some(CollidingFuelTank)]}
    \cup {[BaseUnit EXCEPT !.weights = Some([NoWeights EXCEPT !.axis = m])] : m \in AxisMaps}
    \cup {[BaseUnit EXCEPT !.fuel_tank = ft] : ft \in FuelTanks}

Rerun(op, in) ==
    [op |-> op, in |-> in, applied |-> FALSE, first |-> None, second |-> None]

RerunInputs ==
    {Rerun("ParseUnitsResponse", Body(None, <<u>>)) : u \in RerunUnits}
    \cup {Rerun("GetUnitFields", Response(StatusOK, Body(None, d))) : d \in UnitFieldsData}
    \cup {Rerun("GetDrivingTimeExtended", Response(StatusOK, Body(None, d))) :
            d \in DrivingTimeData}
    \cup {Rerun("ListDrivers", Response(StatusOK, Body(None, d))) : d \in DriverData}

InitRerun ==
    /\ call = NoCall
    /\ ret = NoResult
    /\ co \in RerunInputs
    /\ NoSharing

RerunParseUnitsResponse ==
    /\ co.op = "ParseUnitsResponse" /\ ~co.applied
    /\ \E o1, o2 \in RangeOrders(unitsKeys(co.in.data)) :
        co' = [co EXCEPT !.applied = TRUE,
                         !.first = Some(parseUnitsResponse(co.in, o1)),
                         !.second = Some(parseUnitsResponse(co.in, o2))]
    /\ UNCHANGED <<call, ret, client, heap, procs, file, cli>>

RerunGetUnitFields ==
    /\ co.op = "GetUnitFields" /\ ~co.applied
    /\ \E o1, o2 \in RangeOrders(fieldKeys(co.in.body.data)) :
        co' = [co EXCEPT !.applied = TRUE,
                         !.first = Some(getUnitFields(co.in, o1)),
                         !.second = Some(getUnitFields(co.in, o2))]
    /\ UNCHANGED <<call, ret, client, heap, procs, file, cli>>

RerunGetDrivingTimeExtended ==
    /\ co.op = "GetDrivingTimeExtended" /\ ~co.applied
    /\ \E o1, o2 \in RangeOrders(DOMAIN co.in.body.data.entries) :
        co' = [co EXCEPT !.applied = TRUE,
                         !.first = Some(getDrivingTimeExtended(co.in, o1)),
                         !.second = Some(getDrivingTimeExtended(co.in, o2))]
    /\ UNCHANGED <<call, ret, client, heap, procs, file, cli>>

\* An endpoint that ranges over no map.
RerunListDrivers ==
    /\ co.op = "ListDrivers" /\ ~co.applied
    /\ co' = [co EXCEPT !.applied = TRUE,
                        !.first = Some(listDrivers(co.in)),
                        !.second = Some(listDrivers(co.in))]
    /\ UNCHANGED <<call, ret, client, heap, procs, file, cli>>

NextRerun ==
    \/ RerunParseUnitsResponse
    \/ RerunGetUnitFields
    \/ RerunGetDrivingTimeExtended
    \/ RerunListDrivers

SpecRerun == InitRerun /\ [][NextRerun]_vars

\* C11: mapping is deterministic: decoding and mapping the same response
\* twice gives equal results, with the records in the same order; this
\* includes the field list of GetUnitFields, the driver list of
\* GetDrivingTimeExtended and the fuel-tank and axle-weight maps of a unit.
C11_SameDocumentSameResult == co.applied => co.first = co.second

\* C12: in every endpoint function, once the status is 200, the envelope has
\* decoded and its error member is absent, the call succeeds: no later step
\* (per-item mapping or a second-stage decode of data) returns an error.
C12_NoErrorAfterEnvelope ==
    (IsEndpointCall /\ MappingRan) => (ret.err = None /\ IsSome(ret.resp))

\* The name each Client method gives itself in its errors.
OperationName ==
    [ListUnits |-> "list units", ListRoutes |-> "list routes",
     ListIgnitions |-> "list ignitions", ListHumidity |-> "list humidity",
     ListDrivers |-> "list drivers", ListCanPeriodData |-> "list can period data",
     GetCanDataPoint |-> "get can point data", GetUnitFields |-> "get unit fields",
     GetDrivingTimeExtended |-> "get driving time extended",
     ListTellTaleValues |-> "list tell tale values", ListAlerts |-> "list alerts",
     ListUnitsInGroup |-> "list units in group"]

\* The request could not be built, the transport failed, the status was not
\* 200, the body could not be read or decoded, or the API reported an error.
CallFailedEarly ==
    /\ IsEndpointCall
    /\ \/ call.in.built # "ok"
       \/ ~call.in.transportOK
       \/ call.in.status # 200
       \/ ~call.in.readOK
       \/ ~call.in.body.decodes
       \/ IsSome(call.in.body.error)

\* C13: every non-nil error returned by a Client endpoint method, whatever
\* its cause, carries the operation's name as its outermost wrapper and
\* carries it once; a call that succeeds returns a nil error.
C13_ErrorsWrappedOnce ==
    IsEndpointCall =>
        /\ CallFailedEarly => IsSome(ret.err)
        /\ IsSome(ret.err) =>
            /\ ret.resp = None
            /\ Len(Get(ret.err).wraps) >= 1
            /\ Get(ret.err).wraps[1] = OperationName[call.op]
            /\ \A i \in 2..Len(Get(ret.err).wraps) :
                    Get(ret.err).wraps[i] # OperationName[call.op]
        /\ IsSome(ret.resp) => ret.err = None

\* ListDrivers lost the connection and returned the transport's error
\* wrapped as "list drivers".
C13_Witness ==
    /\ call.op = "ListDrivers"
    /\ call.in.built = "ok"
    /\ ~call.in.transportOK
    /\ IsSome(ret.err)
    /\ Get(ret.err).kind = "transport"
    /\ Get(ret.err).wraps = <<"list drivers">>

(***************************************************************************)
(* The two snapshots of a route.                                           *)
(***************************************************************************)
\* Snapshot s holds what point p holds and nothing else.
SnapshotOfPoint(s, p) ==
    /\ s.location = [latitude |-> p.lat, longitude |-> p.lng, address |-> p.address]
    /\ IsSome(s.time) <=> TimeParse(RFC3339, p.time).ok
    /\ IsSome(s.time) => Get(s.time) = TimeParse(RFC3339, p.time).t
    /\ p.can = None => (s.fuel_level_l = None /\ s.odometer_m = None)
    /\ IsSome(p.can) =>
        /\ s.fuel_level_l = Some(Get(p.can).fuel_level_liters)
        /\ s.odometer_m = Some(Get(p.can).total_distance * 1000)

\* C14: in every Route returned by ListRoutes the start snapshot is built
\* from the route's start point only and the end snapshot from its end point
\* only: a point without CAN data gets neither fuel level nor odometer, even
\* when the route's other point has them.
C14_SnapshotsAreIndependent ==
    \A p \in RoutePairs :
        /\ SnapshotOfPoint(p[2].start, p[1].start)
        /\ SnapshotOfPoint(p[2].end, p[1].end)

\* ListRoutes mapped a route whose start point has CAN data and whose end
\* point has none: only the start snapshot has a fuel level and an odometer.
C14_Witness ==
    \E p \in RoutePairs :
        /\ IsSome(p[1].start.can)
        /\ p[1].end.can = None
        /\ p[2].start.fuel_level_l = Some(40)
        /\ p[2].start.odometer_m = Some(12000)
        /\ p[2].end.fuel_level_l = None
        /\ p[2].end.odometer_m = None

(***************************************************************************)
(* The dynamic-key maps of a unit.                                         *)
(***************************************************************************)
\* C15: in the unit mapper an entry appears in the fuel-tank volume map or in
\* the axle-weight map only if its key matches the rule (fuel_tank_vol_<n>,
\* <n>, with n an integer) and its value is a number; every other key, and a
\* matching key whose value is missing or not a number, is dropped, and the
\* call returns no error.
C15_DynamicEntriesNeedNumber ==
    /\ (IsUnitCall /\ MappingRan) => ret.err = None
    /\ \A p \in UnitPairs :
        /\ IsSome(p[1].fuel_tank) =>
            \A e \in Get(p[2].fuel_tank).tank_volumes_l :
                \E k \in DOMAIN Get(p[1].fuel_tank) :
                    /\ HasPrefix(k, "fuel_tank_vol_")
                    /\ ParseInt32(TrimPrefix(k, "fuel_tank_vol_")).ok
                    /\ ParseInt32(TrimPrefix(k, "fuel_tank_vol_")).v = e[1]
                    /\ Get(p[1].fuel_tank)[k].t = "num"
                    /\ Get(p[1].fuel_tank)[k].v = e[2]
        /\ IsSome(p[1].weights) =>
            \A e \in p[2].state.axis_weights :
                \E k \in DOMAIN Get(p[1].weights).axis :
                    /\ ParseInt32(k).ok
                    /\ ParseInt32(k).v = e[1]
                    /\ Get(p[1].weights).axis[k].value.t = "num"

(***************************************************************************)
(* Ignition events.                                                        *)
(***************************************************************************)
\* s is written in the bare local format, "2021-01-01 10:00:00".
InLocalFormat(s) ==
    Len(s) = 3 /\ s[1] \in DateTokens /\ s[2] = " " /\ s[3] \in ClockTokens

\* The instant s names when it is read as UTC.
InstantUTC(s) == DateVal(s[1]) * 24 + ClockVal(s[3])

\* C16: ListIgnitions returns one unit record per unit of the response, with
\* the same unit_id, and one event per ignition entry; an on or off string in
\* the bare local format becomes that instant in UTC, and an entry whose off
\* string is empty gets no off-time while its on-time is mapped as usual.
C16_IgnitionEvents ==
    /\ (call.op = "ListIgnitions" /\ MappingRan) =>
        /\ ret.err = None
        /\ IsSome(ret.resp)
        /\ Len(Get(ret.resp)) = Len(DataOf)
    /\ \A p \in CanPairs("ListIgnitions") :
        /\ p[2].unit_id = p[1].unit_id
        /\ Len(p[2].ignitions) = Len(p[1].ignitions)
        /\ \A k \in DOMAIN p[1].ignitions :
            LET evt == p[1].ignitions[k]
                out == p[2].ignitions[k]
            IN  /\ InLocalFormat(evt.on) => out.on_time = Some(InstantUTC(evt.on))
                /\ InLocalFormat(evt.off) => out.off_time = Some(InstantUTC(evt.off))
                /\ evt.off = <<>> => out.off_time = None

\* ListIgnitions mapped two units; an event of the first has an on string in
\* the local format and an empty off string: it has an on-time and no
\* off-time.
C16_Witness ==
    /\ call.op = "ListIgnitions"
    /\ ret.err = None
    /\ Len(DataOf) = 2
    /\ \E p \in CanPairs("ListIgnitions") :
        /\ p[1].unit_id = 1
        /\ p[2].unit_id = 1
        /\ p[1].ignitions = <<jsonIgnition(GoodLocalTime, <<>>)>>
        /\ p[2].ignitions = <<[on_time |-> Some(34), off_time |-> None]>>

(***************************************************************************)
(* Drivers.                                                                *)
(***************************************************************************)
\* C17: wherever a Driver is mapped, by ListDrivers and for the drivers
\* embedded in a unit, a created-at string in the bare local format
\* "2006-01-02 15:04:05" yields a present created_at, that instant in UTC.
C17_DriverCreatedAtLocalFormat ==
    /\ \A p \in CanPairs("ListDrivers") :
        InLocalFormat(p[1].created) =>
            p[2].created_at = Some(InstantUTC(p[1].created))
    /\ \A p \in UnitPairs :
        /\ Len(p[2].drivers) = Len(p[1].drivers)
        /\ \A k \in DOMAIN p[1].drivers :
            InLocalFormat(p[1].drivers[k].created_at) =>
                p[2].drivers[k].created_at = Some(InstantUTC(p[1].drivers[k].created_at))

(***************************************************************************)
(* Matching of enum codes.                                                 *)
(***************************************************************************)
\* The members a table of codes maps to.
MembersOf(codes) == {codes[c] : c \in DOMAIN codes}

\* C18: a known code of unit type, movement status or route type is matched
\* in any case and gives the code's own member; a fuel-type code is matched
\* only in its upper-case spelling: the upper-case code gives its own member,
\* and any other spelling gives no known member.
C18_EnumCodeMatching ==
    /\ \A p \in UnitPairs :
        /\ (IsSome(p[1].type) /\ ToLower(Get(p[1].type)) \in DOMAIN UnitTypeCodes) =>
                p[2].type = Some(UnitTypeCodes[ToLower(Get(p[1].type))])
        /\ ToLower(p[1].state.name) \in DOMAIN MovementStatusCodes =>
                p[2].state.movement_status =
                    Some(MovementStatusCodes[ToLower(p[1].state.name)])
        /\ (IsSome(p[1].fuel_type) /\ Get(p[1].fuel_type) \in DOMAIN FuelTypeCodes) =>
                p[2].fuel_type = Some(FuelTypeCodes[Get(p[1].fuel_type)])
        /\ (IsSome(p[1].fuel_type) /\ Get(p[1].fuel_type) \notin DOMAIN FuelTypeCodes) =>
                p[2].fuel_type \notin {Some(m) : m \in MembersOf(FuelTypeCodes)}
    /\ \A p \in RoutePairs :
        ToLower(p[1].type) \in DOMAIN RouteTypeCodes =>
            p[2].type = Some(RouteTypeCodes[ToLower(p[1].type)])
    /\ \A codes \in {UnitTypeCodes, MovementStatusCodes, FuelTypeCodes, RouteTypeCodes} :
        \A c, d \in DOMAIN codes : c # d => codes[c] # codes[d]

(***************************************************************************)
(* Goroutines calling one shared Client, each an endpoint method with its  *)
(* own options.  A call copies the stored configuration, applies its       *)
(* options to the copy one by one, builds its HTTP client from the copy    *)
(* and sends the request.                                                  *)
(***************************************************************************)
InitShared ==
    /\ call = NoCall
    /\ ret = NoResult
    /\ co = NoCoercion
    /\ file = NoFile
    /\ cli = NoCommand
    /\ \E opts \in StoredOptions :
        /\ client = NewClient(<<>>, opts).client
        /\ heap = NewClient(<<>>, opts).heap
    /\ procs = [g \in Goroutines |-> IdleProc]

\* `c.config.with(opts...)` is entered: the receiver cc is a copy of c.config.
CallWith(g) ==
    /\ procs[g].pc = "idle"
    /\ \E opts \in CallOptions(g) :
        procs' = [procs EXCEPT ![g] =
                    [@ EXCEPT !.pc = "with", !.opts = opts, !.rest = opts,
                              !.cfg = client.config]]
    /\ UNCHANGED <<call, ret, co, client, heap, file, cli>>

\* `opt(&cc)` for the next option of the call.
ApplyOption(g) ==
    /\ procs[g].pc = "with"
    /\ procs[g].rest # <<>>
    /\ heap' = applyOption(heap, procs[g].cfg, Head(procs[g].rest)).heap
    /\ procs' = [procs EXCEPT ![g] =
                    [@ EXCEPT !.rest = Tail(@),
                              !.cfg = applyOption(heap, procs[g].cfg,
                                                  Head(procs[g].rest)).cfg]]
    /\ UNCHANGED <<call, ret, co, client, file, cli>>

\* `return cc`, then `c.httpClient(cfg)`.
HTTPClient(g) ==
    /\ procs[g].pc = "with"
    /\ procs[g].rest = <<>>
    /\ procs' = [procs EXCEPT ![g] =
                    [@ EXCEPT !.pc = "do", !.http = httpClient(procs[g].cfg)]]
    /\ UNCHANGED <<call, ret, co, client, heap, file, cli>>

\* `.Do(httpRequest)` returns and the call ends.
Do(g) ==
    /\ procs[g].pc = "do"
    /\ procs' = [procs EXCEPT ![g] = [@ EXCEPT !.pc = "done"]]
    /\ UNCHANGED <<call, ret, co, client, heap, file, cli>>

NextShared ==
    \/ \E g \in Goroutines : CallWith(g)
    \/ \E g \in Goroutines : ApplyOption(g)
    \/ \E g \in Goroutines : HTTPClient(g)
    \/ \E g \in Goroutines : Do(g)

SpecShared == InitShared /\ [][NextShared]_vars

\* The interceptors among options opts, in order.
InterceptorsOf(opts) ==
    [i \in DOMAIN SelectSeq(opts, LAMBDA o : o.opt = "WithInterceptor") |->
        SelectSeq(opts, LAMBDA o : o.opt = "WithInterceptor")[i].interceptor]

\* The API key after options opts on a configuration whose key is k.
APIKeyAfter(k, opts) ==
    IF SelectSeq(opts, LAMBDA o : o.opt = "WithAPIKey") = <<>> THEN k
    ELSE SelectSeq(opts, LAMBDA o : o.opt = "WithAPIKey")[
            Len(SelectSeq(opts, LAMBDA o : o.opt = "WithAPIKey"))].apiKey

\* C19: calls running concurrently on one shared Client, each with its own
\* options, do not affect one another: while a call sends its request, its
\* configuration is the client's stored configuration plus its own options
\* and nothing else, and the stored configuration holds the interceptors it
\* was constructed with.
C19_CallsDoNotInterfere ==
    /\ Elements(heap, client.config.interceptors)
            = [i \in 1..client.config.interceptors.len |-> <<"stored", i>>]
    /\ \A g \in Goroutines :
        procs[g].pc = "do" =>
            /\ procs[g].http.interceptors = procs[g].cfg.interceptors
            /\ Elements(heap, procs[g].http.interceptors)
                    = Elements(heap, client.config.interceptors)
                        \o InterceptorsOf(procs[g].opts)
            /\ procs[g].http.apiKey = APIKeyAfter(client.config.apiKey, procs[g].opts)
            /\ procs[g].http.maxRetries = client.config.retryCount

(***************************************************************************)
(* The CLI obtaining its client from the credentials file.                 *)
(***************************************************************************)
InitAuth ==
    /\ call = NoCall
    /\ ret = NoResult
    /\ co = NoCoercion
    /\ client = NewClient(<<>>, <<>>).client
    /\ heap = <<>>
    /\ procs = [g \in Goroutines |-> IdleProc]
    /\ file \in FileStates
    /\ cli = NoCommand

AuthNewClient ==
    /\ call = NoCall
    /\ \E opts \in CallerOptions :
        /\ call' = [op |-> "auth.NewClient", datetime |-> 0, in |-> opts]
        /\ ret' = [resp |-> authNewClient(heap, file, opts).resp,
                   err |-> authNewClient(heap, file, opts).err,
                   decoded |-> FALSE]
        /\ heap' = authNewClient(heap, file, opts).heap
    /\ UNCHANGED <<co, client, procs, file, cli>>

NextAuth ==
    \/ AuthNewClient
    \/ Return

SpecAuth == InitAuth /\ [][NextAuth]_vars

\* The file is there, can be read and holds an object with a non-empty
\* string apiKey.
FileHoldsKey ==
    /\ file.path /\ file.stat = "ok" /\ file.readable
    /\ file.content.t = "object"
    /\ file.content.apiKey.t = "string"
    /\ file.content.apiKey.s # ""

\* C20: auth.NewClient returns a client only when the credentials file is
\* present, readable, well-formed and holds a non-empty key, and an error
\* otherwise; the client's API key is then the stored key, whatever API-key
\* option the caller passed.
C20_ClientHasStoredKey ==
    call.op = "auth.NewClient" =>
        /\ IsSome(ret.resp) <=> ret.err = None
        /\ ~FileHoldsKey => (IsSome(ret.err) /\ ret.resp = None)
        /\ IsSome(ret.resp) =>
            /\ Get(ret.resp).config.apiKey # ""
            /\ Get(ret.resp).config.apiKey = file.content.apiKey.s
        /\ FileHoldsKey => IsSome(ret.resp)

\* The caller passed its own API key and the file holds another: the client
\* has the key of the file.
C20_Witness ==
    /\ call.op = "auth.NewClient"
    /\ call.in = <<WithDebug(TRUE), WithAPIKey("caller")>>
    /\ file.content.apiKey.s = "stored"
    /\ IsSome(ret.resp)
    /\ Get(ret.resp).config.apiKey = "stored"
    /\ Get(ret.resp).config.debug

(***************************************************************************)
(* The brake switches of a unit.                                           *)
(***************************************************************************)
BrakeSwitches == {"service_brake_switch", "parking_brake_switch"}

\* The decimal d is greater than 0.5.
AboveHalf(d) == 2 * d.m > Pow10(d.e)

\* C21: in the unit mapper the service-brake and parking-brake flags are
\* true exactly when the coerced value of the member is greater than 0.5:
\* 0.5, 0 and a value that does not parse give false; a flag whose member or
\* value is absent is left unset.
C21_BrakeSwitchThreshold ==
    \A p \in UnitPairs :
        \A f \in BrakeSwitches :
            LET x == Member(p[1].can, f)
                flag == p[2].state[FlexFlagField[f]]
            IN  /\ ~IsSome(x) => flag = None
                /\ IsSome(x) =>
                    /\ Get(x).value.t = "null" => flag = None
                    /\ Get(x).value.t = "num" => flag = Some(AboveHalf(Get(x).value.v))
                    /\ (Get(x).value.t = "str" /\ ParseFloat(Get(x).value.s).ok) =>
                            flag = Some(AboveHalf(ParseFloat(Get(x).value.s).v))
                    /\ Unparseable(Get(x).value) => flag = Some(FALSE)

\* A unit whose service brake switch is the string "0.5" was mapped: the
\* flag is set and false.
C21_Witness ==
    \E p \in UnitPairs :
        /\ IsSome(p[1].can)
        /\ Get(p[1].can).service_brake_switch
                = Some([gmt |-> GoodTime, value |-> JStr(<<"0", ".", "5">>)])
        /\ p[2].state.can_service_brake_switch = Some(FALSE)
        /\ p[2].state.can_parking_brake_switch = None

(***************************************************************************)
(* The fuel level of a unit.                                               *)
(***************************************************************************)
\* The fuel entries measured in litres, in input order.
LitreEntries(fuel) == SelectSeq(fuel, LAMBDA f : f.metrics = "L")

\* C22: after a unit is mapped, fuel_level_l of its state is the value of
\* the first fuel entry whose metric is "L", whatever that value is and
\* whatever later entries hold, and it is unset when no entry has metric "L".
C22_FuelLevelIsFirstLitreEntry ==
    \A p \in UnitPairs :
        p[2].state.fuel_level_l =
            IF LitreEntries(p[1].fuel) = <<>> THEN None
            ELSE Some(LitreEntries(p[1].fuel)[1].value)

(***************************************************************************)
(* Tell-tale values.                                                       *)
(***************************************************************************)
\* The decimal digits of a positive number below 100.
DecimalKey(n) ==
    IF n < 10 THEN <<Digits[n + 1]>> ELSE <<Digits[(n \div 10) + 1], Digits[(n % 10) + 1]>>

\* C23: ListTellTaleValues returns the values listed under the data key that
\* is the requested unit ID in decimal, one result per value and in input
\* order, and the result's unit_id is the requested ID; values under other
\* keys are never returned, and without that key the value list is empty and
\* the call succeeds.
C23_TellTaleValuesOfRequestedUnit ==
    (call.op = "ListTellTaleValues" /\ MappingRan) =>
        /\ ret.err = None
        /\ IsSome(ret.resp)
        /\ Get(ret.resp).unit_id = call.unit_id
        /\ DecimalKey(call.unit_id) \notin DOMAIN DataOf =>
                Get(ret.resp).values = <<>>
        /\ DecimalKey(call.unit_id) \in DOMAIN DataOf =>
            LET list == DataOf[DecimalKey(call.unit_id)]
                values == Get(ret.resp).values
            IN  /\ Len(values) = Len(list)
                /\ \A i \in DOMAIN list :
                    /\ values[i].name = list[i].name
                    /\ values[i].telltale_id = list[i].telltale_id
                    /\ values[i].value = list[i].value
                    /\ values[i].value_title = list[i].value_title

\* Unit 1 was requested from a response that holds two values for "1" and
\* one for "01": the two values of "1" are returned in order.
C23_Witness ==
    /\ call.op = "ListTellTaleValues"
    /\ MappingRan
    /\ call.unit_id = 1
    /\ DOMAIN DataOf = {<<"1">>, <<"0", "1">>}
    /\ DataOf[<<"1">>] = <<jsonTellTaleValue("oil", 2, <<"junk">>),
                           jsonTellTaleValue("abs", 1, GoodTime)>>
    /\ DataOf[<<"0", "1">>] = <<jsonTellTaleValue("abs", 1, GoodTime)>>
    /\ Len(Get(ret.resp).values) = 2
    /\ Get(ret.resp).values[1].name = "oil"
    /\ Get(ret.resp).values[2].name = "abs"

(***************************************************************************)
(* The location of an alert.                                               *)
(***************************************************************************)
\* The positions of the commas of s.
Commas(s) == {i \in DOMAIN s : s[i] = ","}

\* The number a part of a location string stands for: 0 when it does not
\* parse.
PartValue(s) == IF ParseFloat(s).ok THEN ParseFloat(s).v ELSE Zero

\* C24: a mapped Alert has a location if and only if its location string
\* splits on "," into exactly two parts, that is, holds exactly one comma;
\* latitude and longitude are then the parsed parts, 0 for a part that does
\* not parse, and the address is attached; otherwise the alert has no
\* location and its address is dropped.
C24_AlertLocation ==
    /\ (call.op = "ListAlerts" /\ MappingRan) =>
            (ret.err = None /\ IsSome(ret.resp) /\ Len(Get(ret.resp)) = Len(DataOf))
    /\ \A p \in CanPairs("ListAlerts") :
        /\ IsSome(p[2].location) <=> Cardinality(Commas(p[1].location)) = 1
        /\ IsSome(p[2].location) =>
            LET i == CHOOSE k \in Commas(p[1].location) : TRUE
            IN  /\ Get(p[2].location).latitude
                        = PartValue(SubSeq(p[1].location, 1, i - 1))
                /\ Get(p[2].location).longitude
                        = PartValue(SubSeq(p[1].location, i + 1, Len(p[1].location)))
                /\ Get(p[2].location).address = p[1].address

\* An alert located at "x,5" was mapped: latitude 0, longitude 5 and the
\* address.
C24_Witness ==
    \E p \in CanPairs("ListAlerts") :
        /\ p[1].location = <<"x", ",", "5">>
        /\ p[1].address = "Riga"
        /\ p[2].location = Some([latitude |-> Zero, longitude |-> [m |-> 5, e |-> 0],
                                 address |-> "Riga"])

(***************************************************************************)
(* The CLI's credentials over a sequence of commands: login and logout     *)
(* runs, each with the outcome the file system gives it, and between them  *)
(* programs that read the credentials (auth.ReadFile, auth.NewClient).     *)
(***************************************************************************)
InitCli ==
    /\ call = NoCall
    /\ ret = NoResult
    /\ co = NoCoercion
    /\ NoSharing

Login ==
    /\ call = NoCall
    /\ \E flag \in LoginFlags, typed \in TypedKeys, io \in LoginIO :
        /\ file' = login(file, flag, typed, io).file
        /\ cli' = Command("login", loginKey(flag, typed), io, file,
                          login(file, flag, typed, io).err,
                          login(file, flag, typed, io).printed,
                          IF login(file, flag, typed, io).err = None
                          THEN "login" ELSE cli.okCmd,
                          IF login(file, flag, typed, io).err = None
                          THEN loginKey(flag, typed) ELSE cli.okKey)
    /\ UNCHANGED <<call, ret, co, client, heap, procs>>

Logout ==
    /\ call = NoCall
    /\ \E io \in LogoutIO :
        /\ file' = logout(file, io).file
        /\ cli' = Command("logout", "", io, file,
                          logout(file, io).err,
                          logout(file, io).printed,
                          IF logout(file, io).err = None THEN "logout" ELSE cli.okCmd,
                          IF logout(file, io).err = None THEN "" ELSE cli.okKey)
    /\ UNCHANGED <<call, ret, co, client, heap, procs>>

AuthReadFile ==
    /\ call = NoCall
    /\ call' = [op |-> "auth.ReadFile", datetime |-> 0, in |-> <<>>]
    /\ ret' = [resp |-> ReadFile(file).f, err |-> ReadFile(file).err, decoded |-> FALSE]
    /\ UNCHANGED <<co, client, heap, procs, file, cli>>

NextCli ==
    \/ Login
    \/ Logout
    \/ AuthReadFile
    \/ AuthNewClient
    \/ Return

SpecCli == InitCli /\ [][NextCli]_vars

\* C25: after any sequence of login and logout commands the credentials
\* are readable exactly when the last command that succeeded was a login,
\* and ReadFile then returns that login's key; a logout with no credentials
\* stored succeeds and leaves none; after a logout ReadFile fails with
\* "no credentials found".
C25_CredentialsFollowLastCommand ==
    /\ call.op = "auth.ReadFile" =>
        /\ ret.err = None <=> cli.okCmd = "login"
        /\ cli.okCmd = "login" => ret.resp = Some([APIKey |-> cli.okKey])
        /\ cli.okCmd = "logout" => ret.err = Some("no credentials found")
    /\ cli.cmd = "logout" /\ cli.before.stat = "not exist" /\ cli.io = "ok" =>
        /\ cli.printed = "Logged out."
        /\ file.stat = "not exist"

\* C26: when the last command was a login that printed "Logged in.", a
\* following auth.NewClient succeeds.
C26_LoginThenNewClient ==
    call.op = "auth.NewClient" /\ cli.cmd = "login" /\ cli.printed = "Logged in." =>
        /\ ret.err = None
        /\ IsSome(ret.resp)

(***************************************************************************)
(* One request through the transport chain of a client.  Each layer is a   *)
(* RoundTripper that holds the layer below as next and hands the request   *)
(* to it; the default transport sends it.  The retry layer starts a new    *)
(* attempt, through its next, after an attempt that failed, up to          *)
(* maxRetries times.  call.at is the layer holding the request, call.seen  *)
(* the layers the current attempt has passed, call.header the API key on   *)
(* the request, call.attempts what each attempt that reached the default   *)
(* transport had passed and carried.                                       *)
(***************************************************************************)
MaxChainOpts == 3

ChainOptions ==
    SeqsUpTo({WithAPIKey("stored"), WithDebug(TRUE), WithInterceptor(<<"stored", 1>>),
              WithRetryCount(0), WithRetryCount(-1), WithRetryCount(1)}, MaxChainOpts)

InitChain ==
    /\ call = NoCall
    /\ ret = NoResult
    /\ co = NoCoercion
    /\ NoSharing

\* NewClient(ctx, opts...) and the start of c.httpClient(c.config).Do(req).
ChainDo ==
    /\ call = NoCall
    /\ \E opts \in ChainOptions :
        /\ heap' = NewClient(<<>>, opts).heap
        /\ client' = NewClient(<<>>, opts).client
        /\ call' = [op |-> "Do", datetime |-> 0, in |-> opts,
                    http |-> httpClient(NewClient(<<>>, opts).client.config),
                    at |-> Len(httpClient(NewClient(<<>>, opts).client.config).layers),
                    attempt |-> 0, seen |-> <<>>, header |-> "", attempts |-> <<>>]
    /\ UNCHANGED <<ret, co, procs, file, cli>>

\* A layer above the default transport takes the request and hands it to
\* its next.
RoundTrip ==
    /\ call.op = "Do"
    /\ ret = NoResult
    /\ call.http.layers[call.at] # "default"
    /\ call' = [call EXCEPT
                  !.at = call.at - 1,
                  !.attempt = IF call.http.layers[call.at] = "retry"
                              THEN call.attempt + 1 ELSE call.attempt,
                  !.seen = Append(call.seen, call.http.layers[call.at]),
                  !.header = IF call.http.layers[call.at] = "apiKey"
                             THEN call.http.apiKey ELSE call.header]
    /\ UNCHANGED <<ret, co, client, heap, procs, file, cli>>

\* The default transport sends the request; a failed attempt goes back to
\* the retry layer while it has retries left.
Send ==
    /\ call.op = "Do"
    /\ ret = NoResult
    /\ call.http.layers[call.at] = "default"
    /\ \E ok \in BOOLEAN :
        IF ~ok /\ call.http.layers[Len(call.http.layers)] = "retry"
               /\ call.attempt <= call.http.maxRetries
        THEN /\ call' = [call EXCEPT
                           !.at = Len(call.http.layers),
                           !.seen = <<>>,
                           !.header = "",
                           !.attempts = Append(call.attempts,
                                [seen |-> Append(call.seen, "default"),
                                 header |-> call.header])]
             /\ ret' = ret
        ELSE /\ call' = [call EXCEPT
                           !.attempts = Append(call.attempts,
                                [seen |-> Append(call.seen, "default"),
                                 header |-> call.header])]
             /\ ret' = [resp |-> IF ok THEN Some(<<>>) ELSE None,
                        err |-> IF ok THEN None ELSE Some("transport"),
                        decoded |-> FALSE]
    /\ UNCHANGED <<co, client, heap, procs, file, cli>>

DoReturn ==
    /\ call.op = "Do"
    /\ ret # NoResult
    /\ call' = NoCall
    /\ ret' = NoResult
    /\ UNCHANGED <<co, client, heap, procs, file, cli>>

NextChain ==
    \/ ChainDo
    \/ RoundTrip
    \/ Send
    \/ DoReturn

SpecChain == InitChain /\ [][NextChain]_vars

\* The place of a layer in the nesting, the default transport innermost.
LayerRank(l) ==
    CASE l = "default" -> 0
      [] l = "debug" -> 1
      [] l = "apiKey" -> 2
      [] l = "interceptor" -> 3
      [] OTHER -> 4

\* Whether the option of a layer is on in the client's configuration.
LayerOn(l) ==
    CASE l = "debug" -> client.config.debug
      [] l = "apiKey" -> client.config.apiKey # ""
      [] l = "interceptor" -> client.config.interceptors.len > 0
      [] l = "retry" -> client.config.retryCount > 0
      [] OTHER -> TRUE

DataIsEmpty ==
    CASE call.op = "GetDrivingTimeExtended" ->
            \/ DataOf.raw \in {"absent", "null", "array"}
            \/ DataOf.raw = "object" /\ DOMAIN DataOf.entries = {}
      [] call.op = "ListTellTaleValues" -> DOMAIN DataOf = {}
      [] OTHER -> DataOf = <<>>

\* The records of the response.
RecordsOf(resp) == IF call.op = "ListTellTaleValues" THEN resp.values ELSE resp

\* C28: every endpoint function returns either a response and no error or
\* an error and no response; when the status is 200, the envelope has no
\* error and its data is empty or missing, it returns a response with zero
\* records and no error.
C28_ResponseXorError ==
    IsEndpointCall =>
        /\ IsSome(ret.resp) <=> ret.err = None
        /\ (MappingRan /\ DataIsEmpty) =>
            /\ ret.err = None
            /\ IsSome(ret.resp)
            /\ RecordsOf(Get(ret.resp)) = <<>>

\* C28 without the case of data that is empty or missing.
C28_ExactlyOneOfResponseAndError ==
    IsEndpointCall =>
        /\ IsSome(ret.resp) <=> ret.err = None
        /\ (MappingRan /\ DataIsEmpty /\ call.op # "GetDrivingTimeExtended") =>
            /\ ret.err = None
            /\ IsSome(ret.resp)
            /\ RecordsOf(Get(ret.resp)) = <<>>

\* C29: a device whose imei member is absent or null is mapped without an
\* IMEI, and a mapped IMEI always comes from a string or a number of the
\* source.
C29_NoIMEIWithoutSourceValue ==
    \A p \in UnitPairs :
        IsSome(p[1].device) =>
            /\ Get(p[1].device).imei = JNull => Get(p[2].device).imei = None
            /\ IsSome(Get(p[2].device).imei) => Get(p[1].device).imei.t \in {"str", "num"}

\* The raw fields of a Unit and its state go with their enum fields.
UnitRawFieldsMatch ==
    \A p \in UnitPairs :
        /\ IsSome(p[2].unrecognized_type) <=> p[2].type = Some("UNIT_TYPE_UNRECOGNIZED")
        /\ IsSome(p[2].unrecognized_fuel_type)
                <=> p[2].fuel_type = Some("FUEL_TYPE_UNRECOGNIZED")
        /\ IsSome(p[2].state.unrecognized_movement_status)
                <=> p[2].state.movement_status = Some("MOVEMENT_STATUS_UNRECOGNIZED")

\* C30: in every mapped Unit, UnitState and Route the raw field of an enum
\* (unit type, fuel type, movement status, route type) is present exactly
\* when the enum field is UNRECOGNIZED.
C30_RawFieldIffUnrecognized ==
    /\ UnitRawFieldsMatch
    /\ \A p \in RoutePairs :
        IsSome(p[2].unrecognized_type) <=> p[2].type = Some("ROUTE_TYPE_UNRECOGNIZED")

====
